---------------------------- MODULE Spec2Model ----------------------------
(***************************************************************************)
(* A model of multisma2 (sillygoose/multisma2), the SMA inverter           *)
(* collection utility: the WebConnect session client (sma.py), the         *)
(* per-inverter agent (inverter.py) and the site scheduler (pvsite.py).    *)
(*                                                                         *)
(* The program is a single asyncio event loop.  A coroutine runs without   *)
(* interruption from one await that suspends to the next one, so every     *)
(* action below is one such run: it starts where a coroutine is resumed    *)
(* (it is called, or the HTTP attempt it waits for ends) and stops where   *)
(* it suspends again or returns.                                           *)
(***************************************************************************)
EXTENDS Integers, Sequences, FiniteSets, TLC

(***************************************************************************)
(* Bounds of the model.                                                    *)
(***************************************************************************)
\* Number of calls (coroutines) issued on one inverter's session.
NumCalls == 2

Calls == 1..NumCalls

(***************************************************************************)
(* sma.py: constants and values.                                           *)
(***************************************************************************)
\* for _ in range(3): the POST attempts of one _fetch_json.
FETCH_ATTEMPTS == 3

\* self.sma_sid = None; a session id issued by the device is 1, 2, ...
NoSid == 0

\* self.sma_uid = None
NoUid == "None"

\* The device ids that may appear as keys of a reply's 'result'.
DevIds == {"d1", "d2"}

\* The operations on a session.  A read is read_values, read_instantaneous,
\* read_history or read_fine_history: each builds its payload and returns
\* _read_body(url, payload), which looks at neither.  Inverter.start() logs in
\* with new_session(); Inverter.stop() is the one explicit caller of
\* close_session().
ReadOp == "read"

LoginOp == "new_session"

StopOp == "stop"

Ops == {ReadOp, LoginOp, StopOp}

(***************************************************************************)
(* A JSON body as the code looks at it: its 'err' field ("none" when the   *)
(* field is absent), result.sid (NoSid when absent or null), whether it    *)
(* has a 'result' field, the keys of 'result' in document order, and       *)
(* whether the body holds any other top-level field.                       *)
(***************************************************************************)
MkBody(err, sid, hasResult, keys, extra) ==
    [err |-> err, sid |-> sid, hasResult |-> hasResult, keys |-> keys, extra |-> extra]

\* return {'err': f"Could not connect to SMA at {self._url} (timeout)"}
ConnectErrBody == MkBody("connect", NoSid, FALSE, <<>>, FALSE)

\* What the device may answer to a login: a session id, an error code
\* (503: no session left, 401: refused), both, or neither.
LoginReplies(fresh) ==
    { MkBody("none", fresh, TRUE, <<>>, FALSE),
      MkBody("401", fresh, TRUE, <<>>, FALSE),
      MkBody("503", NoSid, FALSE, <<>>, FALSE),
      MkBody("401", NoSid, FALSE, <<>>, FALSE),
      MkBody("none", NoSid, FALSE, <<>>, FALSE),
      MkBody("none", NoSid, TRUE, <<>>, FALSE) }

\* What the device may answer to a read.
ReadReplies ==
    { MkBody("401", NoSid, FALSE, <<>>, FALSE),
      MkBody("none", NoSid, FALSE, <<>>, FALSE),
      MkBody("none", NoSid, TRUE, <<>>, FALSE),
      MkBody("none", NoSid, TRUE, <<"d1">>, FALSE),
      MkBody("none", NoSid, TRUE, <<"d2">>, FALSE),
      MkBody("none", NoSid, TRUE, <<"d1", "d2">>, FALSE),
      MkBody("none", NoSid, TRUE, <<"d1">>, TRUE) }

\* The logout reply is not looked at.
LogoutReplies ==
    { MkBody("none", NoSid, FALSE, <<>>, FALSE), MkBody("401", NoSid, FALSE, <<>>, FALSE) }

\* The ways one POST attempt fails: asyncio.TimeoutError, ClientError.
AttemptFailures == {"timeout", "clienterror"}

(***************************************************************************)
(* SMA.__init__: the credentials checks, in the order of the code.  A      *)
(* password is [none, len]: None, or a string of that length.              *)
(***************************************************************************)
USERS == {"user", "installer"}

\* len(password) > 12
PASSWORD_MAX == 12

Groups == USERS \cup {"admin"}

Passwords ==
    {[none |-> TRUE, len |-> 0]}
        \cup {[none |-> FALSE, len |-> n] : n \in {0, 1, PASSWORD_MAX, PASSWORD_MAX + 1}}

SmaInit(group, password) ==
    IF group \notin USERS THEN "BAD_USER_TYPE"
    ELSE IF ~password.none /\ password.len > PASSWORD_MAX THEN "PASSWORD_TOO_LONG"
    ELSE IF password.none \/ password.len = 0 THEN "PASSWORD_REQUIRED"
    ELSE "ok"

(***************************************************************************)
(* SMA._fetch_json: what follows the end of POST attempt number att.       *)
(* failed: the attempt timed out or raised a ClientError.                  *)
(***************************************************************************)
FetchNextOffByOne(att, failed) ==
    IF ~failed THEN "return"
    ELSE IF att <= FETCH_ATTEMPTS THEN "retry"
    ELSE "exhausted"

FetchNextUnbounded(att, failed) == IF ~failed THEN "return" ELSE "retry"

FetchNext(att, failed) ==
    IF ~failed THEN "return"
    ELSE IF att < FETCH_ATTEMPTS THEN "retry"
    ELSE "exhausted"

(***************************************************************************)
(* SMA.new_session: the outcome for the body _fetch_json returned.         *)
(***************************************************************************)
NewSessionOutcomeErrFirst(body) ==
    IF body.err # "none"
    THEN IF body.err = "503" THEN "MAX_SESSIONS" ELSE "START_SESSION"
    ELSE IF body.sid # NoSid THEN "ok" ELSE "SESSION_ID_EXPECTED"

NewSessionOutcome(body) ==
    IF body.sid # NoSid THEN "ok"
    ELSE IF body.err # "none"
         THEN IF body.err = "503" THEN "MAX_SESSIONS" ELSE "START_SESSION"
         ELSE "SESSION_ID_EXPECTED"

(***************************************************************************)
(* SMA._read_body, after the fetch: the unique id it caches, and the       *)
(* outcome for the body.                                                   *)
(***************************************************************************)
\* self.sma_uid = next(iter(body['result'].keys()), None)
UidAfter(body, uid) ==
    IF uid # NoUid THEN uid
    ELSE IF body.keys = <<>> THEN NoUid ELSE Head(body.keys)

\* body['result'].pop(self.sma_uid, None); body != {'result': {}}
LeftAfterPop(body, uid) == {body.keys[i] : i \in DOMAIN body.keys} \ {uid}

ReadBodyOutcome(body, uid) ==
    IF body.err # "none" THEN "ERR_RETURNED"
    ELSE IF ~body.hasResult THEN "NO_RESULT"
    ELSE IF LeftAfterPop(body, UidAfter(body, uid)) # {} \/ body.extra THEN "UNEXPECTED_BODY"
    ELSE "ok"

\* The outcomes after which _read_body calls close_session().
ClosesSessionNever(outcome) == FALSE

ClosesSessionOnAnyError(outcome) == outcome # "ok"

ClosesSession(outcome) == outcome = "ERR_RETURNED"


(***************************************************************************)
(* One inverter and its session, used by NumCalls coroutines.              *)
(***************************************************************************)
VARIABLES
    ctor_res,   \* outcome of sma.SMA(...) in Inverter.start: "none" before it
    inv_sma,    \* Inverter._sma: "None" or "set"
    sma_sid,    \* SMA.sma_sid
    sma_uid,    \* SMA.sma_uid
    issued,     \* the device: number of session ids it has issued
    call        \* the coroutines: operation, position, the fetch in progress

sessVars == <<ctor_res, inv_sma, sma_sid, sma_uid, issued, call>>

LoginErrors == {"MAX_SESSIONS", "START_SESSION", "SESSION_ID_EXPECTED"}

CtorErrors == {"BAD_USER_TYPE", "PASSWORD_TOO_LONG", "PASSWORD_REQUIRED"}

DataErrors == {"NO_RESULT", "UNEXPECTED_BODY"}

\* The positions at which a coroutine waits for a POST attempt to end.
Waiting == {"login", "read", "logout"}

(***************************************************************************)
(* A coroutine: op, the operation; pc, where it is; att, the POSTs sent by *)
(* the _fetch_json in progress; psid, the session id in its params; res,   *)
(* "ok" or the exception the operation ended with.  For the properties:    *)
(* logins, the new_session() calls made; esid, the session id of the read  *)
(* request whose reply carried 'err'; fOk, whether the last POST attempt   *)
(* that ended got a reply; fErr, the 'err' of the body the last            *)
(* _fetch_json returned; late, whether Inverter.stop() had been called     *)
(* when the operation was called.                                          *)
(***************************************************************************)
IdleCall ==
    [op |-> "none", pc |-> "idle", att |-> 0, psid |-> NoSid, res |-> "none",
     logins |-> 0, esid |-> NoSid, fOk |-> FALSE, fErr |-> "none", late |-> FALSE]

SessInit ==
    /\ ctor_res = "none"
    /\ inv_sma = "None"
    /\ sma_sid = NoSid
    /\ sma_uid = NoUid
    /\ issued = 0
    /\ call = [c \in Calls |-> IdleCall]

\* _read_body: if self.sma_sid is None and self._new_session_data is not None
\* (_new_session_data is never None in a constructed SMA).
NeedsLoginAlways(sid) == TRUE

NeedsLogin(sid) == sid = NoSid

\* _fetch_json is entered: params are built from the current sma_sid and the
\* first POST is sent.
SendFetch(r, pc, sid) == [r EXCEPT !.pc = pc, !.att = 1, !.psid = sid]

Return(r, res) == [r EXCEPT !.pc = "done", !.res = res, !.att = 0, !.psid = NoSid]

\* Inverter.start: self._sma = sma.SMA(session, url, password, group)
Construct ==
    /\ ctor_res = "none"
    /\ \E group \in Groups, password \in Passwords :
          /\ ctor_res' = SmaInit(group, password)
          /\ inv_sma' = IF SmaInit(group, password) = "ok" THEN "set" ELSE "None"
    /\ UNCHANGED <<sma_sid, sma_uid, issued, call>>

\* Inverter.stop: await self._sma.close_session(); self._sma = None
SmaAfterStopKept == "set"

SmaAfterStop == "None"

\* A coroutine calls new_session(), a read or Inverter.stop() and runs to its
\* first suspension.
Begin(c) ==
    /\ ctor_res = "ok"
    /\ call[c].pc = "idle"
    /\ \E op \in Ops :
        LET r0 == [call[c] EXCEPT !.op = op,
                                  !.late = \E d \in Calls : call[d].op = StopOp]
            r1 == IF inv_sma = "None"
                  THEN \* self._sma is None: stop() does nothing, the others raise
                       Return(r0, IF op = StopOp THEN "ok" ELSE "AttributeError")
                  ELSE IF op = StopOp
                  THEN IF sma_sid # NoSid THEN SendFetch(r0, "logout", sma_sid)
                       ELSE Return(r0, "ok")
                  ELSE IF op = LoginOp \/ NeedsLogin(sma_sid)
                  THEN [SendFetch(r0, "login", sma_sid) EXCEPT !.logins = @ + 1]
                  ELSE SendFetch(r0, "read", sma_sid)
        IN  /\ call' = [call EXCEPT ![c] = r1]
            /\ inv_sma' = IF op = StopOp /\ r1.pc = "done" THEN SmaAfterStop ELSE inv_sma
    /\ UNCHANGED <<ctor_res, sma_sid, sma_uid, issued>>

\* A POST attempt fails before the last one: the next one is sent.
Retry(c) ==
    /\ call[c].pc \in Waiting
    /\ \E f \in AttemptFailures : FetchNext(call[c].att, TRUE) = "retry"
    /\ call' = [call EXCEPT ![c].att = @ + 1, ![c].fOk = FALSE]
    /\ UNCHANGED <<ctor_res, inv_sma, sma_sid, sma_uid, issued>>

\* The bodies _fetch_json can return when the attempt in progress ends, each
\* with whether it is a reply.
FetchReturns(r, replies) ==
    {<<b, TRUE>> : b \in IF FetchNext(r.att, FALSE) = "return" THEN replies ELSE {}}
        \cup (IF FetchNext(r.att, TRUE) = "exhausted" THEN {<<ConnectErrBody, FALSE>>} ELSE {})

Logged(r, ret) == [r EXCEPT !.fOk = ret[2], !.fErr = ret[1].err]

\* new_session() after its fetch; a read goes on to its own fetch.
LoginEnds(c) ==
    /\ call[c].pc = "login"
    /\ \E ret \in FetchReturns(call[c], LoginReplies(issued + 1)) :
        LET body == ret[1]
            r0 == Logged(call[c], ret)
            out == NewSessionOutcome(body)
            r1 == IF out # "ok" THEN Return(r0, out)
                  ELSE IF r0.op = LoginOp THEN Return(r0, "ok")
                  ELSE IF body.sid = NoSid THEN Return(r0, "NO_SESSION")
                  ELSE SendFetch(r0, "read", body.sid)
        IN  /\ sma_sid' = body.sid
            /\ issued' = IF body.sid # NoSid THEN issued + 1 ELSE issued
            /\ call' = [call EXCEPT ![c] = r1]
    /\ UNCHANGED <<ctor_res, inv_sma, sma_uid>>

\* _read_body after the fetch of the read request.
ReadEnds(c) ==
    /\ call[c].pc = "read"
    /\ \E ret \in FetchReturns(call[c], ReadReplies) :
        LET body == ret[1]
            r0 == [Logged(call[c], ret) EXCEPT
                      !.esid = IF body.err # "none" THEN call[c].psid ELSE NoSid]
            out == ReadBodyOutcome(body, sma_uid)
            r1 == IF ClosesSession(out) /\ sma_sid # NoSid
                  THEN SendFetch(r0, "logout", sma_sid)
                  ELSE Return(r0, out)
        IN  /\ call' = [call EXCEPT ![c] = r1]
            /\ sma_uid' = IF out \in {"ok", "UNEXPECTED_BODY"} THEN UidAfter(body, sma_uid)
                          ELSE sma_uid
    /\ UNCHANGED <<ctor_res, inv_sma, sma_sid, issued>>

\* close_session after its fetch: finally self.sma_sid = None; then
\* _read_body raises, or Inverter.stop sets self._sma = None.
LogoutEnds(c) ==
    /\ call[c].pc = "logout"
    /\ \E ret \in FetchReturns(call[c], LogoutReplies) :
        LET r0 == Logged(call[c], ret)
        IN  call' = [call EXCEPT ![c] = Return(r0, IF r0.op = StopOp THEN "ok" ELSE "ERR_RETURNED")]
    /\ sma_sid' = NoSid
    /\ inv_sma' = IF call[c].op = StopOp THEN SmaAfterStop ELSE inv_sma
    /\ UNCHANGED <<ctor_res, sma_uid, issued>>

(***************************************************************************)
(* PVSite.start() and the Inverter.start() of each configured inverter.    *)
(***************************************************************************)
NumInverters == 2

Inverters == 1..NumInverters

VARIABLES
    site_pc,    \* PVSite.start: "idle", "gather" (awaiting the gather), "done"
    site_res,   \* what PVSite.start ended with: "True", "False", "raised"
    inverter    \* per inverter: where its start() is and what it ended with

startVars == <<site_pc, site_res, inverter>>

\* The sub-steps of Inverter.start(), in the order of the code.
SubSteps == <<"construct", "login", "metadata", "tags", "production", "instantaneous">>

(***************************************************************************)
(* An inverter's start(): pc, the sub-step awaited ("idle" before the      *)
(* task runs, "done" after); out, how start() ended: "keys" (a result with *)
(* keys), "error" (a result with keys None) or "raised"; error, the        *)
(* 'error' of the result or the exception raised; instantaneous,           *)
(* self._instantaneous; failed, the sub-step that failed.                  *)
(***************************************************************************)
\* metadata and tags count the assignments to self._metadata and self._tags:
\* 0 while the attribute is None.
InverterInit ==
    [pc |-> "idle", out |-> "none", error |-> "None", instantaneous |-> "None",
     failed |-> "none", metadata |-> 0, tags |-> 0]

StartIdle ==
    /\ site_pc = "idle"
    /\ site_res = "none"
    /\ inverter = [i \in Inverters |-> InverterInit]

StartReturns(r, out, error) == [r EXCEPT !.pc = "done", !.out = out, !.error = error]

\* Inverter.read_instantaneous returns a dict with 'name', 'sensors' and
\* 'error' whether the read succeeded or not; start() tests `if not success`.
InstantaneousResult(ok, cache) ==
    [name |-> "name", sensors |-> IF ok THEN cache ELSE "None",
     error |-> IF ok THEN "None" ELSE "ERR_RETURNED"]

\* Python's truth value of a dict: it is not empty.
Truthy(d) == DOMAIN d # {}

\* Inverter.start() from the sub-step s it awaits, which ends with ok; e
\* names the exception when it does not.
FetchedAgain(n, s, what, ok) == IF (s = what \/ s = "production") /\ ok THEN n + 1 ELSE n

\* The dictionary `what` (metadata or tags) after sub-step s: it is assigned
\* when its own GET has answered, and by no other sub-step.
Fetched(n, s, what, ok) == IF s = what /\ ok THEN n + 1 ELSE n

StartStep(r, s, ok, e) ==
    LET f == [r EXCEPT !.failed = IF ok THEN "none" ELSE s,
                       !.metadata = Fetched(@, s, "metadata", ok),
                       !.tags = Fetched(@, s, "tags", ok)]
    IN  CASE s = "construct" ->
               IF ok THEN [f EXCEPT !.pc = "login"] ELSE StartReturns(f, "error", e)
          [] s = "login" ->
               IF ok THEN [f EXCEPT !.pc = "metadata"] ELSE StartReturns(f, "error", e)
          [] s = "metadata" ->
               IF ok THEN [f EXCEPT !.pc = "tags"] ELSE StartReturns(f, "raised", e)
          [] s = "tags" ->
               IF ok THEN [f EXCEPT !.pc = "production"] ELSE StartReturns(f, "raised", e)
          [] s = "production" ->
               IF ok THEN [f EXCEPT !.pc = "instantaneous"]
               ELSE StartReturns(f, "error", "read_inverter_production() failed")
          [] s = "instantaneous" ->
               LET cache == IF ok THEN "set" ELSE f.instantaneous
                   g == [f EXCEPT !.instantaneous = cache]
               IN  IF ~Truthy(InstantaneousResult(ok, cache))
                   THEN StartReturns(g, "error", "read_instantaneous() failed")
                   ELSE IF cache = "None"
                   THEN StartReturns(g, "raised", "AttributeError")
                   ELSE StartReturns(g, "keys", "None")

\* PVSite.start up to its gather: the Inverter objects are built, the
\* database and the broker are started, and the start() of every inverter
\* is scheduled.
SiteStart ==
    /\ site_pc = "idle"
    /\ \E influxOk \in BOOLEAN, mqttOk \in BOOLEAN :
          IF influxOk /\ mqttOk
          THEN site_pc' = "gather" /\ site_res' = site_res
          ELSE site_pc' = "done" /\ site_res' = "False"
    /\ UNCHANGED inverter

\* The task of inverter i runs for the first time: the SMA object is built
\* and, if that succeeds, the login request is sent.
InverterConstruct(i) ==
    /\ site_pc = "gather" \/ site_res = "raised"
    /\ inverter[i].pc = "idle"
    /\ \E group \in Groups, password \in Passwords :
          LET res == SmaInit(group, password)
              r == StartStep(inverter[i], "construct", res = "ok", res)
          IN  inverter' = [inverter EXCEPT ![i] = r]
    /\ UNCHANGED <<site_pc, site_res>>

\* await self._sma.new_session() ends.
InverterLogin(i) ==
    /\ inverter[i].pc = "login"
    /\ \E body \in LoginReplies(i) \cup {ConnectErrBody} :
          LET res == NewSessionOutcome(body)
          IN  inverter' = [inverter EXCEPT ![i] = StartStep(@, "login", res = "ok", res)]
    /\ UNCHANGED <<site_pc, site_res>>

\* The GET of the metadata or of the tag dictionary ends: with status 200
\* and a JSON text, or with an assertion or a client error.
InverterGet(i) ==
    /\ inverter[i].pc \in {"metadata", "tags"}
    /\ \E e \in {"ok", "AssertionError", "ClientError"} :
          inverter' = [inverter EXCEPT ![i] = StartStep(@, @.pc, e = "ok", e)]
    /\ UNCHANGED <<site_pc, site_res>>

\* read_inverter_production: the three read_history of its gather have
\* ended; it returns False when one of them returned None.
ReadInverterProduction(results) == \A n \in DOMAIN results : results[n]

InverterProduction(i) ==
    /\ inverter[i].pc = "production"
    /\ \E results \in [1..3 -> BOOLEAN] :
          inverter' = [inverter EXCEPT
                          ![i] = StartStep(@, "production", ReadInverterProduction(results),
                                           "None")]
    /\ UNCHANGED <<site_pc, site_res>>

\* await self.read_instantaneous(True) ends, and start() returns.
InverterInstantaneous(i) ==
    /\ inverter[i].pc = "instantaneous"
    /\ \E ok \in BOOLEAN :
          inverter' = [inverter EXCEPT ![i] = StartStep(@, "instantaneous", ok, "None")]
    /\ UNCHANGED <<site_pc, site_res>>

\* asyncio.gather without return_exceptions: the first exception of a child
\* is raised in PVSite.start, whatever the other children are doing.
SiteRaises ==
    /\ site_pc = "gather"
    /\ \E i \in Inverters : inverter[i].out = "raised"
    /\ site_pc' = "done"
    /\ site_res' = "raised"
    /\ UNCHANGED inverter

\* The gather returns the results of all the children; start() returns
\* False when one of them has keys None.
SiteResult(results) ==
    IF \E i \in DOMAIN results : results[i].out # "keys" THEN "False" ELSE "True"

SiteReturns ==
    /\ site_pc = "gather"
    /\ \A i \in Inverters : inverter[i].pc = "done" /\ inverter[i].out # "raised"
    /\ site_pc' = "done"
    /\ site_res' = SiteResult(inverter)
    /\ UNCHANGED inverter


(***************************************************************************)
(* The instantaneous cache of one inverter and its lock, used by NumTasks  *)
(* coroutines calling read_instantaneous() and get_state().                *)
(***************************************************************************)
NumTasks == 3

Tasks == 1..NumTasks

Keys == {"k1", "k2"}

VARIABLES
    instantaneous,  \* Inverter._instantaneous: for each key, the set it came with
    lock_locked,    \* Inverter._lock: whether it is held
    lock_waiters,   \* Inverter._lock: the coroutines waiting for it, in order
    task            \* the coroutines

cacheVars == <<instantaneous, lock_locked, lock_waiters, task>>

\* The set the device returns to the read of task t: all its keys carry t;
\* 0 is the read of Inverter.start().
Snapshot(t) == [k \in Keys |-> t]

\* None, which has no key: Inverter.__init__, or a reply with an empty result.
NoSet == [k \in {} |-> 0]

(***************************************************************************)
(* A coroutine: op, "read_instantaneous" or "get_state"; pc, "idle",       *)
(* "waiting" (for the lock), "reading" (holding the lock, awaiting the     *)
(* device) or "done"; key, the key of get_state; seen, the set the value   *)
(* it returned came with; res, "ok" or the exception.  For the properties: *)
(* before, the cache when the refresh took the lock; waited, whether it    *)
(* waited for the lock.                                                    *)
(***************************************************************************)
IdleTask ==
    [op |-> "none", pc |-> "idle", key |-> "none", seen |-> 0, res |-> "none",
     before |-> NoSet, waited |-> FALSE]

\* The inverter with its cache: None after __init__, the set of the first
\* read after a start() that succeeded.
CacheInit(cache) ==
    /\ instantaneous = cache
    /\ lock_locked = FALSE
    /\ lock_waiters = <<>>
    /\ task = [t \in Tasks |-> IdleTask]

\* asyncio.Lock.acquire: the lock is taken at once when it is free and no
\* coroutine waits for it.
AcquiresAtOnce == ~lock_locked /\ lock_waiters = <<>>

\* self._instantaneous = await self._sma.read_instantaneous()
StoreInstantaneousInPlace(old, new) ==
    IF old = NoSet \/ new = NoSet THEN new
    ELSE [k \in Keys |-> IF k = CHOOSE x \in Keys : TRUE THEN new[k] ELSE old[k]]

StoreInstantaneous(old, new) == new

\* get_state with the lock: self._instantaneous.get(key, None).copy()
GetState(r, cache) ==
    IF cache = NoSet THEN [r EXCEPT !.pc = "done", !.res = "AttributeError"]
    ELSE [r EXCEPT !.pc = "done", !.res = "ok", !.seen = cache[r.key]]

\* Task t calls read_instantaneous(daylight) or get_state(key) and runs to
\* its first suspension.
CacheCall(t) ==
    /\ task[t].pc = "idle"
    /\ \/ \* read_instantaneous(False) returns the cache
          /\ task' = [task EXCEPT ![t] = [@ EXCEPT !.op = "read_instantaneous",
                                                   !.pc = "done", !.res = "ok"]]
          /\ UNCHANGED <<instantaneous, lock_locked, lock_waiters>>
       \/ \* read_instantaneous(True)
          LET r == [task[t] EXCEPT !.op = "read_instantaneous"]
          IN  IF AcquiresAtOnce
              THEN /\ task' = [task EXCEPT ![t] = [r EXCEPT !.pc = "reading",
                                                            !.before = instantaneous]]
                   /\ lock_locked' = TRUE
                   /\ UNCHANGED <<instantaneous, lock_waiters>>
              ELSE /\ task' = [task EXCEPT ![t] = [r EXCEPT !.pc = "waiting",
                                                            !.waited = TRUE]]
                   /\ lock_waiters' = Append(lock_waiters, t)
                   /\ UNCHANGED <<instantaneous, lock_locked>>
       \/ \* get_state(key)
          \E key \in Keys :
            LET r == [task[t] EXCEPT !.op = "get_state", !.key = key]
            IN  IF instantaneous = NoSet
                THEN /\ task' = [task EXCEPT ![t] = [r EXCEPT !.pc = "done",
                                                              !.res = "AssertionError"]]
                     /\ UNCHANGED <<instantaneous, lock_locked, lock_waiters>>
                ELSE IF AcquiresAtOnce
                THEN /\ task' = [task EXCEPT ![t] = GetState(r, instantaneous)]
                     /\ UNCHANGED <<instantaneous, lock_locked, lock_waiters>>
                ELSE /\ task' = [task EXCEPT ![t] = [r EXCEPT !.pc = "waiting",
                                                              !.waited = TRUE]]
                     /\ lock_waiters' = Append(lock_waiters, t)
                     /\ UNCHANGED <<instantaneous, lock_locked>>

\* The first waiter, woken by the release of the lock, runs: it takes the
\* lock; a refresh sends its read, a get_state reads the key and releases.
LockGranted(t) ==
    /\ ~lock_locked
    /\ lock_waiters # <<>> /\ Head(lock_waiters) = t
    /\ lock_waiters' = Tail(lock_waiters)
    /\ IF task[t].op = "read_instantaneous"
       THEN /\ task' = [task EXCEPT ![t] = [@ EXCEPT !.pc = "reading",
                                                     !.before = instantaneous]]
            /\ lock_locked' = TRUE
       ELSE /\ task' = [task EXCEPT ![t] = GetState(@, instantaneous)]
            /\ lock_locked' = FALSE
    /\ UNCHANGED instantaneous

\* The read of the refresh of task t ends: with the device's set, with an
\* empty result, or with an SmaException; the lock is released.
RefreshEnds(t) ==
    /\ task[t].pc = "reading"
    /\ \/ \E new \in {Snapshot(t), NoSet} :
             /\ instantaneous' = StoreInstantaneous(instantaneous, new)
             /\ task' = [task EXCEPT ![t] = [@ EXCEPT !.pc = "done", !.res = "ok"]]
       \/ \E e \in {"ERR_RETURNED"} \cup DataErrors \cup LoginErrors :
             /\ instantaneous' = instantaneous
             /\ task' = [task EXCEPT ![t] = [@ EXCEPT !.pc = "done", !.res = e]]
    /\ lock_locked' = FALSE
    /\ UNCHANGED lock_waiters


(***************************************************************************)
(* PVSite.scheduler, the two refreshes of a fast tick, the three queues    *)
(* and the tasks that consume them.                                        *)
(***************************************************************************)
MaxTime == 4

Tiers == {"fast", "medium", "slow"}

\* The tiers in the order in which the scheduler tests them.
TierOrder == <<"fast", "medium", "slow">>

\* The sampling intervals when the configuration gives none, in seconds.
DEFAULT_FAST == 30

DEFAULT_MEDIUM == 60

DEFAULT_SLOW == 120

DefaultSampling == [fast |-> DEFAULT_FAST, medium |-> DEFAULT_MEDIUM, slow |-> DEFAULT_SLOW]

\* self._sampling_... = config.settings.sampling.get(..., _DEFAULT_...)
Sampling(settings) ==
    [q \in Tiers |-> IF q \in DOMAIN settings THEN settings[q] ELSE DefaultSampling[q]]

\* No settings.sampling in the configuration.
NoSettings == [q \in {} |-> 0]

\* The runs explored: settings.sampling of the configuration, in seconds,
\* and the second in which run() starts the scheduler.
Runs ==
    {[settings |-> [fast |-> 1, medium |-> 2, slow |-> 4], started |-> 0],
     [settings |-> [fast |-> 2, medium |-> 3, slow |-> 4], started |-> 0],
     [settings |-> [fast |-> 2, medium |-> 1, slow |-> 4], started |-> 0],
     [settings |-> NoSettings, started |-> 118],
     [settings |-> [fast |-> 1], started |-> 58]}

VARIABLES
    now,        \* time.time_ns() // 1000000000
    started,    \* the second in which the scheduler was started
    daylight,   \* PVSite._daylight
    cached,     \* for each inverter, the tick of the refresh its cached set is from
    total_production,   \* the tick of the pass PVSite._total_production is from
    sampling,   \* PVSite._sampling_fast, _sampling_medium, _sampling_slow
    scheduler,  \* PVSite.scheduler: where it is, last_tick and tick
    gather,     \* the two coroutines of the gather of a fast tick
    queues,     \* the queues 'fast', 'medium' and 'slow'
    worker      \* task_fast, task_medium and task_slow

schedVars ==
    <<now, started, daylight, cached, total_production, sampling, scheduler, gather,
      queues, worker>>

\* A coroutine of the gather: the tick it was started for and with which
\* daylight, whether it is "running", "done" or "raised", and whether it
\* has sent a request to an inverter.
NoRefresh == [pc |-> "idle", tick |-> 0, daylight |-> FALSE, sent |-> FALSE]

\* The site when run() starts the scheduler.  The scheduler: pc, last_tick
\* and tick, and puts, the tiers on whose queue it has put tick.
SchedInit(run, light) ==
    /\ now = run.started
    /\ started = run.started
    /\ daylight = light
    /\ cached = [i \in Inverters |-> run.started]
    /\ total_production = run.started
    /\ sampling = Sampling(run.settings)
    /\ scheduler = [pc |-> "sleep", last_tick |-> run.started, tick |-> run.started,
                    puts |-> <<>>]
    /\ gather = [read_instantaneous |-> NoRefresh, update_total_production |-> NoRefresh]
    /\ queues = [q \in Tiers |-> <<>>]
    /\ worker = [q \in Tiers |-> [pc |-> "get", timestamp |-> 0]]

\* if tick % self._sampling_... == 0
DueOffByOne(tick, interval) == tick % interval = 1

Due(tick, interval) == tick % interval = 0

\* tick = time.time_ns() // 1000000000
ObservedTickCatchUp(clock, last_tick) == last_tick + 1

ObservedTick(clock, last_tick) == clock

\* asyncio.Queue.put_nowait on a queue without maxsize
PutNowaitLatest(q, tick) == <<tick>>

PutNowait(q, tick) == Append(q, tick)

\* The tiers among `tiers` on which the tick is due, in the order of the code.
DueTiers(tiers, tick) ==
    SelectSeq(TierOrder, LAMBDA q : q \in tiers /\ Due(tick, sampling[q]))

\* queues.get(tier).put_nowait(tick) for each tier of the sequence
PutAll(qs, tiers, tick) ==
    [q \in Tiers |-> IF \E n \in DOMAIN tiers : tiers[n] = q THEN PutNowait(qs[q], tick)
                     ELSE qs[q]]

\* await asyncio.gather(...) returns when all its coroutines have returned.
GatherDoneAny(g) ==
    g.read_instantaneous.pc = "done" \/ g.update_total_production.pc = "done"

GatherDone(g) ==
    g.read_instantaneous.pc = "done" /\ g.update_total_production.pc = "done"

\* A second passes.
ClockTicks ==
    /\ now < started + MaxTime
    /\ now' = now + 1
    /\ UNCHANGED <<started, daylight, cached, total_production, sampling, scheduler, gather,
                   queues, worker>>

\* The scheduler wakes in a second other than last_tick: on a fast tick it
\* starts the two refreshes and awaits them; otherwise it queues the tick
\* where it is due and sleeps.
SchedulerRuns ==
    /\ scheduler.pc = "sleep"
    /\ now # scheduler.last_tick
    /\ LET tick == ObservedTick(now, scheduler.last_tick)
           due == DueTiers({"medium", "slow"}, tick)
       IN  IF Due(tick, sampling.fast)
           THEN /\ scheduler' = [pc |-> "gather", last_tick |-> tick, tick |-> tick,
                                 puts |-> <<>>]
                /\ LET r == [pc |-> "running", tick |-> tick, daylight |-> daylight,
                              sent |-> FALSE]
                   IN  gather' = [read_instantaneous |-> r, update_total_production |-> r]
                /\ UNCHANGED queues
           ELSE /\ scheduler' = [pc |-> "sleep", last_tick |-> tick, tick |-> tick,
                                 puts |-> due]
                /\ queues' = PutAll(queues, due, tick)
                /\ UNCHANGED gather
    /\ UNCHANGED <<now, started, daylight, cached, total_production, sampling, worker>>

\* Inverter.read_instantaneous: if daylight is False, the cache is returned
ReadsInverterAlways(light) == TRUE

ReadsInverter(light) == light # FALSE

\* PVSite.update_total_production: if not daylight: return
UpdatesTotal(light) == light

\* The daylight task wakes at dawn or at dusk and sets the flag.
DaylightChanges ==
    /\ daylight' = ~daylight
    /\ UNCHANGED <<now, started, cached, total_production, sampling, scheduler, gather,
                   queues, worker>>

\* PVSite.read_instantaneous(daylight) of the gather returns: at daylight
\* every inverter was read, and the cache of those that answered is new.
ReadInstantaneousEnds ==
    /\ gather.read_instantaneous.pc = "running"
    /\ IF ReadsInverter(gather.read_instantaneous.daylight)
       THEN /\ gather' = [gather EXCEPT !.read_instantaneous.pc = "done",
                                        !.read_instantaneous.sent = TRUE]
            /\ \E answered \in SUBSET Inverters :
                  cached' = [i \in Inverters |->
                                IF i \in answered THEN gather.read_instantaneous.tick
                                ELSE cached[i]]
       ELSE /\ gather' = [gather EXCEPT !.read_instantaneous.pc = "done"]
            /\ UNCHANGED cached
    /\ UNCHANGED <<now, started, daylight, total_production, sampling, scheduler, queues,
                   worker>>

\* PVSite.update_total_production(daylight) of the gather returns, or, at
\* daylight, raises what get_state or the arithmetic on its results raises.
UpdateTotalProductionEnds ==
    /\ gather.update_total_production.pc = "running"
    /\ IF UpdatesTotal(gather.update_total_production.daylight)
       THEN \/ /\ gather' = [gather EXCEPT !.update_total_production.pc = "done"]
               /\ total_production' = gather.update_total_production.tick
            \/ /\ gather' = [gather EXCEPT !.update_total_production.pc = "raised"]
               /\ UNCHANGED total_production
       ELSE /\ gather' = [gather EXCEPT !.update_total_production.pc = "done"]
            /\ UNCHANGED total_production
    /\ UNCHANGED <<now, started, daylight, cached, sampling, scheduler, queues, worker>>

\* The gather has returned: the tick is put on the fast queue, then on the
\* others where it is due, and the scheduler sleeps.
GatherReturns ==
    /\ scheduler.pc = "gather"
    /\ GatherDone(gather)
    /\ LET due == <<"fast">> \o DueTiers({"medium", "slow"}, scheduler.tick)
       IN  /\ queues' = PutAll(queues, due, scheduler.tick)
           /\ scheduler' = [scheduler EXCEPT !.pc = "sleep", !.puts = due]
    /\ UNCHANGED <<now, started, daylight, cached, total_production, sampling,
                   gather, worker>>

\* The gather raises the exception of one of its coroutines: the scheduler
\* ends with it.
GatherRaises ==
    /\ scheduler.pc = "gather"
    /\ gather.update_total_production.pc = "raised"
    /\ scheduler' = [scheduler EXCEPT !.pc = "raised"]
    /\ UNCHANGED <<now, started, daylight, cached, total_production, sampling,
                   gather, queues, worker>>

QueueGetKeeps(q) == [item |-> Head(q), rest |-> q]

\* asyncio.Queue.get on a queue that is not empty: the oldest item, which
\* is taken off the queue.
QueueGet(q) == [item |-> Head(q), rest |-> Tail(q)]

\* task_fast, task_medium, task_slow: timestamp = await queue.get(), and the
\* gather of the sensors of the tier is awaited.
TaskGets(q) ==
    /\ worker[q].pc = "get"
    /\ queues[q] # <<>>
    /\ worker' = [worker EXCEPT ![q] = [pc |-> "work", timestamp |-> QueueGet(queues[q]).item]]
    /\ queues' = [queues EXCEPT ![q] = QueueGet(@).rest]
    /\ UNCHANGED <<now, started, daylight, cached, total_production, sampling,
                   scheduler, gather>>

\* The sensors are published and written with the timestamp.
TaskPublishes(q) ==
    /\ worker[q].pc = "work"
    /\ worker' = [worker EXCEPT ![q].pc = "get"]
    /\ UNCHANGED <<now, started, daylight, cached, total_production, sampling,
                   scheduler, gather, queues>>


(***************************************************************************)
(* The production baselines of the inverters (Inverter._history), the      *)
(* period totals of the site (PVSite._total_production), the passes of     *)
(* update_total_production and the midnight task.                          *)
(***************************************************************************)
\* The periods in the order of the loops over them.
Periods == <<"today", "month", "year", "lifetime">>

PeriodSet == {Periods[n] : n \in DOMAIN Periods}

\* What the history reads of inverter i return for the start of today, of
\* the month and of the year: on the day before the rollover and, for the
\* first inverter, on the day after it.
DeviceHistories(i) ==
    IF i = 1
    THEN {[today |-> 1000, month |-> 900, year |-> 0],
          [today |-> 1442, month |-> 900, year |-> 0]}
    ELSE {[today |-> 500, month |-> 400, year |-> 0]}

\* The total Wh meter (key 6400_0046C300) an instantaneous read of inverter
\* i can return.
DeviceMeters(i) == IF i = 1 THEN {1157, 1442} ELSE {609}

\* The callers of update_total_production: run() before it starts the
\* sub-tasks, the scheduler at a fast tick, and the midnight task.
Passes == {"run", "scheduler", "midnight"}

VARIABLES
    history,    \* for each inverter, Inverter._history: the baseline 'v' per period
    meter,      \* for each inverter, the cached total Wh meter
    total,      \* PVSite._total_production: <<>> for None, or an entry per period
    pass,       \* the passes of update_total_production in progress
    midnight,   \* the midnight task
    histories   \* what production_history() last returned: <<>>, or per period
                \* its topic and the keys of its values

prodVars == <<history, meter, total, pass, midnight, histories>>

\* self._history after read_inverter_production has stored the results h.
Baselines(h) == [today |-> h.today, month |-> h.month, year |-> h.year, lifetime |-> 0]

\* The baseline sets a read_inverter_production of inverter i can store.
CompleteBaselines(i) == {Baselines(h) : h \in DeviceHistories(i)}

\* The baselines of inverter i after a read_inverter_production whose three
\* read_history returned the values of h, the n-th with success ok[n]:
\* if None in results: return False; otherwise the four entries are stored.
HistoryAfterPartial(old, ok, h) ==
    [today |-> IF ok[1] THEN h.today ELSE old.today,
     month |-> IF ok[2] THEN h.month ELSE old.month,
     year |-> IF ok[3] THEN h.year ELSE old.year,
     lifetime |-> 0]

HistoryAfterOldToday(old, ok, h) ==
    IF ReadInverterProduction(ok) THEN [Baselines(h) EXCEPT !.today = old.today] ELSE old

HistoryAfter(old, ok, h) == IF ReadInverterProduction(ok) THEN Baselines(h) ELSE old

\* update_total_production, one period: the loop over the inverters, which
\* adds each delta to total and stores total as 'site'.
RECURSIVE TotalAfter(_, _, _, _)
TotalAfter(n, period, meters, hist) ==
    IF n = 0 THEN 0
    ELSE TotalAfter(n - 1, period, meters, hist) + (meters[n] - hist[n][period])

PeriodStatsLastOnly(period, meters, hist) ==
    [period |-> period,
     device |-> [i \in Inverters |-> meters[i] - hist[i][period]],
     site |-> meters[NumInverters] - hist[NumInverters][period]]

PeriodStatsNoBaseline(period, meters, hist) ==
    [period |-> period,
     device |-> [i \in Inverters |-> meters[i]],
     site |-> TotalAfter(NumInverters, "lifetime", meters, hist)]

PeriodStats(period, meters, hist) ==
    [period |-> period,
     device |-> [i \in Inverters |-> meters[i] - hist[i][period]],
     site |-> TotalAfter(NumInverters, period, meters, hist)]

\* A pass of update_total_production: pc, "idle", "meters" (awaiting
\* production_totalwh) or "periods"; meters, the composite it got; stats,
\* the entries computed so far.  The pass of run() is at "start" until run()
\* calls it, and idle once it has returned.
IdlePass == [pc |-> "idle", meters |-> [i \in Inverters |-> 0], stats |-> <<>>]

RunDaylightAsIs(light) == light

\* The daylight argument of the update_total_production of run()'s first
\* gather: the literal True, whatever the daylight at the start.
RunDaylight(light) == TRUE

\* run() has left its first gather and started the sub-tasks (the
\* scheduler, the tier consumers and the midnight task).
SubTasksStarted == pass["run"].pc = "idle"

\* What stands for the histories when production_history() raised: the
\* loop of find_total_production over None raises TypeError, and None for
\* a period without an entry has no pop().
RaisedHistories == <<[topic |-> "TypeError", keys |-> {}]>>


\* The retries of the instantaneous read in midnight().
MIDNIGHT_RETRIES == 10

\* The midnight task: pc, where it is; retries, the local of its retry loop;
\* pending, the read_inverter_production of its gather that have not ended;
\* failed, those that returned False.
MidnightSleeps == [pc |-> "sleep", retries |-> 0, pending |-> {}, failed |-> {}]

\* The state once Inverter.start has read the baselines of every inverter
\* and the first instantaneous read has filled the caches.
ProdInit(meters) ==
    /\ history = [i \in Inverters |->
                    Baselines(CHOOSE h \in DeviceHistories(i) : h.today # 1442)]
    /\ meter = meters
    /\ total = <<>>
    /\ pass = [p \in Passes |-> IF p = "run" THEN [IdlePass EXCEPT !.pc = "start"] ELSE IdlePass]
    /\ midnight = MidnightSleeps
    /\ histories = <<>>

\* run(): the first gather calls update_total_production(daylight=True);
\* 'if not daylight: return' ends the call at once, otherwise it awaits
\* production_totalwh().  light is the daylight at the start of the process.
RunUpdatesTotal(light) ==
    /\ pass["run"].pc = "start"
    /\ pass' = [pass EXCEPT !["run"].pc = IF RunDaylight(light) THEN "meters" ELSE "idle"]
    /\ UNCHANGED <<history, meter, total, midnight, histories>>

\* Inverter.read_instantaneous(True) of inverter i at a fast tick: the cache
\* is replaced by what the device answers.
InstantaneousRead(i) ==
    /\ \E v \in DeviceMeters(i) : meter' = [meter EXCEPT ![i] = v]
    /\ UNCHANGED <<history, total, pass, midnight, histories>>

\* update_total_production(self._daylight) called by the scheduler at a
\* fast tick: 'if not daylight: return', otherwise it awaits
\* production_totalwh().
PassStarts(light) ==
    /\ SubTasksStarted
    /\ pass["scheduler"].pc = "idle"
    /\ pass' = [pass EXCEPT !["scheduler"].pc = IF light THEN "meters" ELSE "idle"]
    /\ UNCHANGED <<history, meter, total, midnight, histories>>

\* production_totalwh() returns the composite of the cached meters.
PassGetsMeters(p) ==
    /\ pass[p].pc = "meters"
    /\ pass' = [pass EXCEPT ![p] = [pc |-> "periods", meters |-> meter, stats |-> <<>>]]
    /\ UNCHANGED <<history, meter, total, midnight, histories>>

\* One period of the loop: the gather of start_production(period) returns
\* the baselines, the entry is computed and appended; after the last period
\* the list replaces self._total_production and the call returns.
PassPeriod(p) ==
    /\ pass[p].pc = "periods"
    /\ LET period == Periods[Len(pass[p].stats) + 1]
           updated == Append(pass[p].stats, PeriodStats(period, pass[p].meters, history))
       IN  IF Len(updated) < Len(Periods)
           THEN /\ pass' = [pass EXCEPT ![p].stats = updated]
                /\ UNCHANGED <<total, midnight>>
           ELSE /\ pass' = [pass EXCEPT ![p] = IdlePass]
                /\ total' = updated
                /\ midnight' = IF p = "midnight"
                                 THEN [midnight EXCEPT !.pc = "publish"]
                                 ELSE midnight
    /\ UNCHANGED <<history, meter, histories>>

\* midnight(): the sleep until midnight ends and solar_data_update returns.
MidnightWakes ==
    /\ SubTasksStarted
    /\ midnight.pc = "sleep"
    /\ midnight' = [midnight EXCEPT !.pc = "read"]
    /\ UNCHANGED <<history, meter, total, pass, histories>>

\* midnight(): one read_instantaneous(True) of the retry loop; the inverters
\* of answered update their caches, and the read is a success when all did.
MidnightReads ==
    /\ midnight.pc = "read"
    /\ \E answered \in SUBSET Inverters :
          /\ \E m \in [Inverters -> UNION {DeviceMeters(i) : i \in Inverters}] :
                /\ \A i \in Inverters :
                      m[i] \in DeviceMeters(i) /\ (i \notin answered => m[i] = meter[i])
                /\ meter' = m
          /\ midnight' =
                IF answered = Inverters \/ midnight.retries = MIDNIGHT_RETRIES
                THEN [midnight EXCEPT !.pc = "production", !.pending = Inverters,
                                      !.failed = {}]
                ELSE [midnight EXCEPT !.retries = @ + 1]
    /\ UNCHANGED <<history, total, pass, histories>>

\* midnight(): read_inverter_production of inverter i, one of the gather,
\* ends; after the last one midnight awaits get_yesterday_production.
ProductionReadEnds(i) ==
    /\ midnight.pc = "production"
    /\ i \in midnight.pending
    /\ \E h \in DeviceHistories(i), ok \in [1..3 -> BOOLEAN] :
          /\ history' = [history EXCEPT ![i] = HistoryAfter(@, ok, h)]
          /\ midnight' =
                [midnight EXCEPT
                    !.pending = @ \ {i},
                    !.failed = IF ReadInverterProduction(ok) THEN @ ELSE @ \cup {i},
                    !.pc = IF midnight.pending = {i} THEN "yesterday" ELSE @]
    /\ UNCHANGED <<meter, total, pass, histories>>

\* get_production_history(): the histories answered, where an inverter whose
\* read_history failed answers None, are summed by 'for i in range(1,
\* len(inverter))', which raises TypeError on a None.
GetProductionHistory(answered) == IF answered = Inverters THEN "production" ELSE "TypeError"

\* midnight(): the gather of read_history in get_yesterday_production has
\* ended with every inverter answering; yesterday's production is written
\* and update_total_production(daylight=True) is called.
MidnightUpdatesTotal ==
    /\ midnight.pc = "yesterday"
    /\ GetProductionHistory(Inverters) = "production"
    /\ midnight' = [midnight EXCEPT !.pc = "totals"]
    /\ pass' = [pass EXCEPT !["midnight"].pc = "meters"]
    /\ UNCHANGED <<history, meter, total, histories>>

\* midnight(): the gather of read_history has ended and an inverter did not
\* answer; get_production_history raises, nothing in midnight() catches it
\* and the task ends with the exception.
MidnightRaises ==
    /\ midnight.pc = "yesterday"
    /\ \E answered \in SUBSET Inverters :
          /\ GetProductionHistory(answered) = "TypeError"
          /\ midnight' = [midnight EXCEPT !.pc = "TypeError"]
    /\ UNCHANGED <<history, meter, total, pass, histories>>

\* run(): 'await self._task_gather' raises the exception of the first
\* sub-task that ended with one.
RunRaises == midnight.pc = "TypeError"

\* midnight(): the sensors are published and the loop sleeps again.
MidnightPublishes ==
    /\ midnight.pc = "publish"
    /\ midnight' = MidnightSleeps
    /\ UNCHANGED <<history, meter, total, pass, histories>>

\* The key 'site' of a composite, next to the inverters.
Site == 0

PoppedInPlace(d_period) == [k \in DOMAIN d_period \ {"period"} |-> d_period[k]]

\* The stored entry after a caller of find_total_production has popped
\* 'period' from what it got: find_total_production returns d_period.copy(),
\* so the stored entry keeps its keys.
PoppedCopy(d_period) == d_period

\* production_history(): for each period, in order, the entry found is
\* scaled key by key into a history under the topic of the period.  The
\* method has no await: it runs in one step.  The scaled values (Wh to kWh
\* with three decimals) are not kept.
ProductionHistory ==
    /\ SubTasksStarted
    /\ IF \A period \in PeriodSet : \E m \in DOMAIN total : total[m].period = period
       THEN /\ histories' =
                  [n \in DOMAIN Periods |->
                     LET tp == CHOOSE e \in {total[m] : m \in DOMAIN total} :
                                   e.period = Periods[n]
                     IN  [topic |-> tp.period, keys |-> DOMAIN tp.device \cup {Site}]]
            /\ total' = [n \in DOMAIN total |-> PoppedCopy(total[n])]
       ELSE /\ histories' = RaisedHistories
            /\ UNCHANGED total
    /\ UNCHANGED <<history, meter, pass, midnight>>


(***************************************************************************)
(* The derived quantities: co2_avoided and inverter_efficiency.  Floating  *)
(* point values are fixed point numbers: kg of CO2 and percentages in      *)
(* hundredths, the CO2 factor of the configuration in tenths of kg/kWh.    *)
(***************************************************************************)
\* The integers nearest to n / d, d > 0: what round() returns.  When n / d is
\* half way between two integers the floating point product decides, and
\* either can be the result.
Nearest(n, d) == {q \in ((n \div d) - 1)..((n \div d) + 1) : 2 * (n - q * d) \in (0 - d)..d}

\* int(n / d), d > 0: the fraction is dropped, towards zero.
Truncated(n, d) == IF n >= 0 THEN n \div d ELSE 0 - ((0 - n) \div d)

\* CO2_SETTINGS: 'scale' is 0.001 for every period, 'precision' is 2 for
\* today and 0 for the other periods.
CO2_SCALE_DIVISOR == 1000

CO2Precision(period) == IF period = "today" THEN 2 ELSE 0

\* The values co2_avoided can report, in hundredths of kg, for a period total
\* of value Wh: co2 = value * scale * factor, then round(co2, precision) if
\* the precision is not 0 and int(co2) if it is.
Co2OutcomesNoScale(period, value, factor) ==
    IF CO2Precision(period) # 0
    THEN {q * 10 ^ (2 - CO2Precision(period)) :
             q \in Nearest(value * factor * 10 ^ CO2Precision(period), 10)}
    ELSE {100 * Truncated(value * factor, 10)}

Co2Outcomes(period, value, factor) ==
    IF CO2Precision(period) # 0
    THEN {q * 10 ^ (2 - CO2Precision(period)) :
             q \in Nearest(value * factor * 10 ^ CO2Precision(period),
                           10 * CO2_SCALE_DIVISOR)}
    ELSE {100 * Truncated(value * factor, 10 * CO2_SCALE_DIVISOR)}

\* get_composite for one of AGGREGATE_KEYS: the values of the inverters that
\* gave a result and, with more than one inverter, their sum as 'site'.
RECURSIVE CompositeTotal(_, _, _)
CompositeTotal(n, vals, present) ==
    IF n = 0 THEN 0
    ELSE CompositeTotal(n - 1, vals, present) + (IF n \in present THEN vals[n] ELSE 0)

GetComposite(vals, present) ==
    [k \in present \cup (IF NumInverters > 1 THEN {Site} ELSE {}) |->
        IF k = Site THEN CompositeTotal(NumInverters, vals, present) ELSE vals[k]]

\* The factors of the configuration (0.5 and 1.0), the meters behind the
\* stored totals, and the AC and DC powers of an inverter.
Co2Factors == {5, 10}

CalcMeters(i) == DeviceMeters(i) \cup (IF i = 1 THEN {21010} ELSE {})

AcPowers == {0, 100}

DcPowers == {0, 120}

VARIABLES
    co2_factor,     \* config.site.co2_avoided
    co2avoided,     \* the call of co2_avoided and what it returned
    ac_power,       \* the composite of 6100_40263F00
    dc_power,       \* the composite of 6380_40251E00
    efficiencies    \* the call of inverter_efficiency and how it ended

calcVars == <<co2_factor, co2avoided, ac_power, dc_power, efficiencies>>

NotCalled == [pc |-> "idle", reply |-> <<>>]

\* The list update_total_production stores for the meters m and the
\* baselines hist.
TotalProduction(m, hist) == [n \in DOMAIN Periods |-> PeriodStats(Periods[n], m, hist)]

CalcInit(factor, ac, dc) ==
    /\ co2_factor = factor
    /\ co2avoided = NotCalled
    /\ ac_power = ac
    /\ dc_power = dc
    /\ efficiencies = NotCalled

\* The outcome of S taken when a tie is resolved upwards, or downwards.
Resolved(S, up) == CHOOSE q \in S : \A r \in S : IF up THEN r <= q ELSE q <= r

\* find_total_production(period): the entry of the stored list for period.
FindTotalProduction(period) ==
    CHOOSE e \in {total[n] : n \in DOMAIN total} : e.period = period

\* co2_avoided: for each period, in order, the entry of _total_production
\* scaled key by key; up tells how the rounding of each key resolves a tie.
Co2Avoided ==
    /\ co2avoided.pc = "idle"
    /\ total # <<>>
    /\ \E up \in [Inverters \cup {Site} -> BOOLEAN] :
          co2avoided' =
             [pc |-> "done",
              reply |->
                 [n \in DOMAIN Periods |->
                    LET tp == FindTotalProduction(Periods[n])
                    IN  [topic |-> tp.period,
                         site |-> Resolved(Co2Outcomes(tp.period, tp.site, co2_factor),
                                           up[Site]),
                         device |->
                            [i \in Inverters |->
                               Resolved(Co2Outcomes(tp.period, tp.device[i], co2_factor),
                                        up[i])]]]]
    /\ UNCHANGED <<co2_factor, ac_power, dc_power, efficiencies>>

\* The efficiency of one key: 0.0 if denom == 0, otherwise
\* round((float(v) / denom) * 100, 2), in hundredths of a percent.
Efficiency(v, denom) == IF denom = 0 THEN {0} ELSE Nearest(v * 10000, denom)

\* inverter_efficiency: for each key of the AC composite the DC value of the
\* same key is looked up with dict.get; for a key the DC composite does not
\* have it is None, None == 0 is false and float(v) / None raises TypeError.
InverterEfficiency ==
    /\ efficiencies.pc = "idle"
    /\ IF \E k \in DOMAIN ac_power : k \notin DOMAIN dc_power
       THEN efficiencies' = [pc |-> "raised", reply |-> <<>>]
       ELSE \E up \in [DOMAIN ac_power -> BOOLEAN] :
               efficiencies' =
                  [pc |-> "done",
                   reply |-> [k \in DOMAIN ac_power |->
                                Resolved(Efficiency(ac_power[k], dc_power[k]), up[k])]]
    /\ UNCHANGED <<co2_factor, co2avoided, ac_power, dc_power>>

(***************************************************************************)
(* The reads of the site at the fast ticks and the composites made from    *)
(* them.  A cached sensor set is known by the tick of the read it came     *)
(* from, 0 for the read of Inverter.start().                               *)
(***************************************************************************)
\* The fast ticks of a run.
MaxFastTicks == 2

\* A key of the instantaneous view (the AC power, an aggregate key) and a key
\* that is not in it.
CachedKey == "6100_40263F00"

LiveKey == "6800_00A21E00"

CompositeKeys == {CachedKey, LiveKey}

\* What a read of a device ends with: the sensor set, an empty result, which
\* _read_body returns as None, or an SmaException.
ReadOutcomes == {"ok", "empty", "ERR_RETURNED"}

\* None as a cached sensor set.
NoSensors == 0 - 1

\* The value inverter i reports for a key in the read of tick t.
DevicePower(i, t) == 100 * i + t

VARIABLES
    cached_keys,    \* PVSite._cached_keys
    sensors,        \* for each inverter, the tick its _instantaneous is from
    site_read,      \* PVSite.read_instantaneous(True) of the scheduler
    composite,      \* a call of get_composite([key])
    update          \* update_total_production(True) of the scheduler

compVars == <<cached_keys, sensors, site_read, composite, update>>

NoResult == [sensors |-> "none", error |-> "none"]

NoAnswer == [from |-> "none", val |-> 0]

\* site_read: pc, "idle", "reading" or "done"; tick, the fast tick; pending,
\* the inverters whose read has not ended; results, what the gather holds;
\* returned and inverter_list, what the method returned and logged.
NotReading ==
    [pc |-> "idle", tick |-> 0, pending |-> {}, results |-> [i \in Inverters |-> NoResult],
     returned |-> FALSE, inverter_list |-> {}]

\* composite: pc, "idle", "gather", "done" or the exception raised; key;
\* tick and after, the last fast tick and whether its read had returned when
\* the call began; pending and answers, the gather over the inverters;
\* requests, the read_key issued to each inverter; reply, the composite.
NoComposite ==
    [pc |-> "idle", key |-> CachedKey, tick |-> 0, after |-> FALSE, pending |-> {},
     answers |-> [i \in Inverters |-> NoAnswer], requests |-> [i \in Inverters |-> 0],
     reply |-> <<>>]

\* No set copied yet.
NotCopied == 0 - 2

\* update: pc, "idle", "meters" (the gather of get_state under
\* production_totalwh), "stored" or the exception raised; pending, the
\* inverters whose get_state has not ended; meters, for each inverter the
\* tick of the sensor set its get_state copied.
NoUpdate == [pc |-> "idle", pending |-> {}, meters |-> [i \in Inverters |-> NotCopied]]

CompInit ==
    /\ cached_keys = {CachedKey}
    /\ sensors = [i \in Inverters |-> 0]
    /\ site_read = NotReading
    /\ composite = NoComposite
    /\ update = NoUpdate

\* Inverter.read_instantaneous(True) whose read ended with outcome at tick:
\* the cache afterwards and the dict returned.  The assignment to
\* self._instantaneous is skipped when the read raises.
InverterReadInstantaneous(old, outcome, tick) ==
    IF outcome = "ok" THEN [cache |-> tick, sensors |-> "set", error |-> "None"]
    ELSE IF outcome = "empty" THEN [cache |-> NoSensors, sensors |-> "None", error |-> "None"]
    ELSE [cache |-> old, sensors |-> "None", error |-> outcome]

SiteReadInstantaneousAny(results) ==
    [returned |-> \E i \in Inverters : results[i].sensors # "None",
     inverter_list |-> {<<i, results[i].error>> : i \in {j \in Inverters : results[j].sensors = "None"}}]

\* PVSite.read_instantaneous after its gather: the inverters without sensors
\* are listed as name(error), and the call returns False if there is one.
SiteReadInstantaneous(results) ==
    LET inverter_list ==
           {<<i, results[i].error>> : i \in {j \in Inverters : results[j].sensors = "None"}}
    IN  [returned |-> inverter_list = {}, inverter_list |-> inverter_list]

\* scheduler(): a fast tick by day, once the gather of the tick before has
\* returned; read_instantaneous(True) starts the read of every inverter in
\* one gather, each taking the lock of its inverter, and
\* update_total_production(True), the second of the scheduler's gather,
\* starts the gather of get_state under production_totalwh().
FastTick ==
    /\ site_read.pc \in {"idle", "done"}
    /\ update.pc \in {"idle", "stored"}
    /\ site_read.tick < MaxFastTicks
    /\ site_read' = [NotReading EXCEPT !.pc = "reading", !.tick = site_read.tick + 1,
                                       !.pending = Inverters]
    /\ update' = [NoUpdate EXCEPT !.pc = "meters", !.pending = Inverters]
    /\ UNCHANGED <<cached_keys, sensors, composite>>

LockNeverHeld(i) == FALSE

\* 'async with self._lock' in Inverter.read_instantaneous: the read of the
\* tick holds the lock of inverter i from its start, before any get_state
\* of the tick has run, until the sensor set is assigned.
LockHeld(i) == i \in site_read.pending

\* Inverter.get_state of the tick's update_total_production: it waits for
\* the lock and copies the state; a sensor set of None raises.  After the
\* last one the periods are computed and the list is stored.
UpdateGetStateEnds(i) ==
    /\ update.pc = "meters"
    /\ i \in update.pending
    /\ ~LockHeld(i)
    /\ update' =
          IF sensors[i] = NoSensors
          THEN [update EXCEPT !.pc = "AttributeError", !.pending = {}]
          ELSE [update EXCEPT
                   !.pc = IF update.pending = {i} THEN "stored" ELSE @,
                   !.pending = @ \ {i},
                   !.meters[i] = sensors[i]]
    /\ UNCHANGED <<cached_keys, sensors, site_read, composite>>

\* The read of inverter i ends; after the last one the gather returns and
\* PVSite.read_instantaneous returns.
DeviceReadEnds(i) ==
    /\ site_read.pc = "reading"
    /\ i \in site_read.pending
    /\ \E outcome \in ReadOutcomes :
          LET r == InverterReadInstantaneous(sensors[i], outcome, site_read.tick)
              results == [site_read.results EXCEPT ![i] = [sensors |-> r.sensors,
                                                            error |-> r.error]]
          IN  /\ sensors' = [sensors EXCEPT ![i] = r.cache]
              /\ site_read' =
                    IF site_read.pending = {i}
                    THEN [site_read EXCEPT
                             !.pc = "done", !.pending = {}, !.results = results,
                             !.returned = SiteReadInstantaneous(results).returned,
                             !.inverter_list = SiteReadInstantaneous(results).inverter_list]
                    ELSE [site_read EXCEPT !.pending = @ \ {i}, !.results = results]
    /\ UNCHANGED <<cached_keys, composite, update>>

CachedKeyAlways(key, keys) == TRUE

\* cached_key(key)
CachedKeyIn(key, keys) == key \in keys

\* get_composite([key]) begins: the gather of get_state over the inverters
\* for a cached key, of read_key, each a request to its inverter, otherwise.
GetCompositeStarts ==
    /\ composite.pc \in {"idle", "done"}
    /\ site_read.tick >= 1
    /\ \E key \in CompositeKeys :
          composite' =
             [NoComposite EXCEPT
                !.pc = "gather", !.key = key, !.tick = site_read.tick,
                !.after = (site_read.pc = "done"), !.pending = Inverters,
                !.requests = [i \in Inverters |->
                                 IF CachedKeyIn(key, cached_keys) THEN 0 ELSE 1]]
    /\ UNCHANGED <<cached_keys, sensors, site_read, update>>

\* Inverter.get_state(key) of the gather: it asserts that there is a sensor
\* set, takes the lock, which a read in progress holds, and copies the state.
GetStateEnds(i) ==
    /\ composite.pc = "gather"
    /\ \A j \in Inverters : composite.requests[j] = 0
    /\ i \in composite.pending
    /\ IF sensors[i] = NoSensors
       THEN composite' = [composite EXCEPT !.pc = "AssertionError", !.pending = {}]
       ELSE /\ i \notin site_read.pending
            /\ composite' =
                  [composite EXCEPT
                      !.pending = @ \ {i},
                      !.answers[i] = [from |-> "cache", val |-> DevicePower(i, sensors[i])]]
    /\ UNCHANGED <<cached_keys, sensors, site_read, update>>

\* Inverter.read_key(key) of the gather: the cleaned result of the device, or
\* False when the read raised an SmaException or came back empty.
ReadKeyEnds(i) ==
    /\ composite.pc = "gather"
    /\ composite.requests[i] = 1
    /\ i \in composite.pending
    /\ \E outcome \in ReadOutcomes :
          composite' =
             [composite EXCEPT
                 !.pending = @ \ {i},
                 !.answers[i] = IF outcome = "ok"
                                THEN [from |-> "device",
                                      val |-> DevicePower(i, composite.tick)]
                                ELSE [from |-> "False", val |-> 0]]
    /\ UNCHANGED <<cached_keys, sensors, site_read, update>>

\* get_composite after the gather: inverter.get('name') raises
\* AttributeError on a False; otherwise every inverter that answered is in
\* the composite, with the total of an aggregate key under 'site'.
GetCompositeEnds ==
    /\ composite.pc = "gather"
    /\ composite.pending = {}
    /\ composite' =
          IF \E i \in Inverters : composite.answers[i].from = "False"
          THEN [composite EXCEPT !.pc = "AttributeError"]
          ELSE [composite EXCEPT
                   !.pc = "done",
                   !.reply = GetComposite([i \in Inverters |-> composite.answers[i].val],
                                          Inverters)]
    /\ UNCHANGED <<cached_keys, sensors, site_read, update>>

(***************************************************************************)
(* The shutdown of the site: run(), its sub-tasks and stop() on one event  *)
(* loop.  stop() is awaited by a second run_until_complete, under which    *)
(* the tasks that run() left pending go on.                                *)
(***************************************************************************)
\* The operations on an inverter that one sub-task gets to start.
MaxTouches == 1

\* The sub-tasks of self._task_gather that use the inverters.
SubTasks == {"midnight", "scheduler", "task_fast"}

VARIABLES
    run_pc,         \* run(): "gather" (its first gather), "tasks" (awaiting
                    \* self._task_gather) or "ended"
    task_gather,    \* self._task_gather: "None", "pending", "done" (with the
                    \* exception of a sub-task) or "cancelled"
    subtask,        \* the sub-tasks
    agent,          \* for each inverter, "open", "closing" (stop() awaits its
                    \* logout) or "closed" (stop() has set _sma to None)
    stop_pc,        \* stop(): "idle", "stopping" or "done"
    sinks           \* "open", or "released" by self._influxdb_client.stop()

stopVars == <<run_pc, task_gather, subtask, agent, stop_pc, sinks>>

\* A sub-task: pc, "none" (not created), "waiting" (at an await of its
\* loop), "cancelling" (cancel() was called on it), "cancelled" or "raised";
\* touches, the operations on an inverter it has started (a request, or a
\* read of the cache); device, the inverter of the last one.
NoSubTask == [pc |-> "none", touches |-> 0, device |-> 0]

StopInit ==
    /\ run_pc = "gather"
    /\ task_gather = "None"
    /\ subtask = [t \in SubTasks |-> NoSubTask]
    /\ agent = [i \in Inverters |-> "open"]
    /\ stop_pc = "idle"
    /\ sinks = "open"

\* The event loop runs until the run_until_complete of _astop() returns.
LoopRuns == stop_pc # "done"

\* run(): the first gather has ended; the sub-tasks are created in
\* self._task_gather, which run() awaits.
RunStartsTasks ==
    /\ LoopRuns
    /\ run_pc = "gather"
    /\ run_pc' = "tasks"
    /\ task_gather' = "pending"
    /\ subtask' = [t \in SubTasks |-> [NoSubTask EXCEPT !.pc = "waiting"]]
    /\ UNCHANGED <<agent, stop_pc, sinks>>

\* A sub-task wakes up and starts an operation on inverter i: a read at a
\* tick or at midnight, or a get_state for a composite.
SubTaskTouches(t, i) ==
    /\ LoopRuns
    /\ subtask[t].pc = "waiting"
    /\ subtask[t].touches < MaxTouches
    /\ subtask' = [subtask EXCEPT ![t].touches = @ + 1, ![t].device = i]
    /\ UNCHANGED <<run_pc, task_gather, agent, stop_pc, sinks>>

\* A sub-task ends with an exception: the gather takes it as its result, the
\* other sub-tasks are left running, and run() raises it.
SubTaskRaises(t) ==
    /\ LoopRuns
    /\ subtask[t].pc = "waiting"
    /\ subtask' = [subtask EXCEPT ![t].pc = "raised"]
    /\ task_gather' = IF task_gather = "pending" THEN "done" ELSE task_gather
    /\ run_pc' = "ended"
    /\ UNCHANGED <<agent, stop_pc, sinks>>

\* 'if self._task_gather: self._task_gather.cancel()': a gather that is
\* pending is cancelled, and with it its sub-tasks; None is skipped, and
\* cancel() of a gather that is done does nothing.
TaskGatherCancel(g) == g = "pending"

\* stop() is called: by multisma2.run() after run() has ended, or after a
\* signal has ended the run_until_complete of run().  It cancels and goes on
\* to the gather of Inverter.stop() without an await in between.
StopBegins ==
    /\ stop_pc = "idle"
    /\ stop_pc' = "stopping"
    /\ IF TaskGatherCancel(task_gather)
       THEN /\ task_gather' = "cancelled"
            /\ subtask' = [t \in SubTasks |->
                             IF subtask[t].pc = "waiting"
                             THEN [subtask[t] EXCEPT !.pc = "cancelling"]
                             ELSE subtask[t]]
       ELSE UNCHANGED <<task_gather, subtask>>
    /\ UNCHANGED <<run_pc, agent, sinks>>

\* A cancelled sub-task wakes up with CancelledError, which nothing in it
\* catches; after the last one run() gets the CancelledError of the gather.
SubTaskCancelled(t) ==
    /\ LoopRuns
    /\ subtask[t].pc = "cancelling"
    /\ subtask' = [subtask EXCEPT ![t].pc = "cancelled"]
    /\ run_pc' = IF \A u \in SubTasks \ {t} : subtask[u].pc # "cancelling"
                 THEN "ended" ELSE run_pc
    /\ UNCHANGED <<task_gather, agent, stop_pc, sinks>>

\* Inverter.stop() of inverter i: close_session() posts the logout when
\* there is a session id, and does nothing when there is none.
InverterStopBegins(i) ==
    /\ stop_pc = "stopping"
    /\ agent[i] = "open"
    /\ \E sid \in BOOLEAN : agent' = [agent EXCEPT ![i] = IF sid THEN "closing" ELSE "closed"]
    /\ UNCHANGED <<run_pc, task_gather, subtask, stop_pc, sinks>>

\* The logout of inverter i has ended, with a reply or without: the session
\* id is cleared and self._sma is set to None.
InverterStopEnds(i) ==
    /\ stop_pc = "stopping"
    /\ agent[i] = "closing"
    /\ agent' = [agent EXCEPT ![i] = "closed"]
    /\ UNCHANGED <<run_pc, task_gather, subtask, stop_pc, sinks>>

\* stop(): the gather of Inverter.stop() has returned;
\* self._influxdb_client.stop() is called and stop() returns.
StopReleases ==
    /\ stop_pc = "stopping"
    /\ \A i \in Inverters : agent[i] = "closed"
    /\ stop_pc' = "done"
    /\ sinks' = "released"
    /\ UNCHANGED <<run_pc, task_gather, subtask, agent>>

(***************************************************************************)
(* Inverter.clean(): the conversion of one raw reading of a key into the   *)
(* cleaned entry, with the key's metadata and the device's tag dictionary. *)
(***************************************************************************)
\* The tag codes a device reports, as the tag dictionary spells its keys
\* (lookup_tag() looks up str(key)); "9999" is a code the dictionary lacks.
TagCodes == {"51", "302", "9999"}

\* self._tags: the tag dictionary fetched at start.
TagDictionary == [c \in {"51", "302"} |-> IF c = "51" THEN "Closed" ELSE "Ok"]

\* lookup_tag(key): self._tags.get(str(key), '???').
LookupTag(key) == IF key \in DOMAIN TagDictionary THEN TagDictionary[key] ELSE "???"

\* self._metadata.get(key): "absent" when the metadata has no entry for the
\* key, else the entry's 'Typ' (8 stands for any type other than 0 and 1).
Typs == {"absent", "0", "1", "8"}

\* The entry's 'Scale', as an integer factor.
Scales == {1, 10}

\* A 'val' of null.
NoVal == 0 - 1

\* One state of a reading: its 'val' is a number (or null), or a list of
\* {'tag': code} records.
StateVals ==
    {[kind |-> "num", num |-> n, tags |-> <<>>] : n \in {NoVal, 3}}
        \cup {[kind |-> "tags", num |-> NoVal, tags |-> t] :
                 t \in {<<>>, <<"51", "302">>} \cup {<<c>> : c \in TagCodes}}

\* The most states a reading carries in the model (phases a, b).
MaxStates == 2

\* The value of the key in raw_results: falsy ("empty"), without its '1'
\* entry ("nostates"), or with the states of '1'.
RawValues ==
    {[value |-> v, states |-> <<>>] : v \in {"empty", "nostates"}}
        \cup {[value |-> "states", states |-> s] :
                 s \in UNION {[1..n -> StateVals] : n \in 0..MaxStates}}

\* The inputs of one clean(): the key's metadata, whether the key is one of
\* AGGREGATE_KEYS, and its raw value.
CleanInputs ==
    {[typ |-> t, scale |-> sc, aggregate |-> a, value |-> r.value, states |-> r.states] :
        t \in Typs, sc \in Scales, a \in BOOLEAN, r \in RawValues}

VARIABLES clean_in, cleaned

cleanVars == <<clean_in, cleaned>>

\* cleaned without an entry for the key (only 'name').
NoEntry == [kind |-> "none", num |-> NoVal, phases |-> <<>>, total |-> NoVal, tag |-> ""]

NotCleaned == [pc |-> "idle", entry |-> NoEntry]

CleanInit(in) ==
    /\ clean_in = in
    /\ cleaned = NotCleaned

\* get_type(key): self._metadata.get(key, '???').get('Typ', None); the
\* default '???' is a str, which has no get().
GetType(in) == IF in.typ = "absent" THEN "AttributeError" ELSE in.typ

\* get_scale(key).
GetScale(in) == IF in.typ = "absent" THEN NoVal ELSE in.scale

\* The type 0 loop: val = state.get('val'); None becomes 0; val *= scale
\* unless the scale is 1.
Scaled(state, scale) ==
    (IF state.num = NoVal THEN 0 ELSE state.num) * (IF scale # 1 THEN scale ELSE 1)

RECURSIVE TotalOf(_, _)
TotalOf(states, scale) ==
    IF states = <<>> THEN 0
    ELSE Scaled(Head(states), scale) + TotalOf(Tail(states), scale)

\* clean() of a type 0 key: a list 'val' cannot be added to total.
CleanNumber(in) ==
    IF in.value = "nostates" \/ \E k \in DOMAIN in.states : in.states[k].kind = "tags"
    THEN [pc |-> "TypeError", entry |-> NoEntry]
    ELSE IF Len(in.states) > 1
    THEN [pc |-> "returned",
          entry |-> [NoEntry EXCEPT
                       !.kind = "phases",
                       !.phases = [k \in DOMAIN in.states |-> Scaled(in.states[k], GetScale(in))],
                       !.total = IF in.aggregate THEN TotalOf(in.states, GetScale(in)) ELSE NoVal]]
    ELSE [pc |-> "returned",
          entry |-> [NoEntry EXCEPT !.kind = "num", !.num = TotalOf(in.states, GetScale(in))]]

\* clean() of a type 1 key: the first state's tag_list[0].get('tag'), then
\* break.
CleanTag(in) ==
    IF in.value = "nostates" THEN [pc |-> "TypeError", entry |-> NoEntry]
    ELSE IF in.states = <<>> THEN [pc |-> "returned", entry |-> NoEntry]
    ELSE IF in.states[1].kind = "num" THEN [pc |-> "TypeError", entry |-> NoEntry]
    ELSE IF in.states[1].tags = <<>> THEN [pc |-> "IndexError", entry |-> NoEntry]
    ELSE [pc |-> "returned",
          entry |-> [NoEntry EXCEPT !.kind = "tag", !.tag = in.states[1].tags[1]]]

\* clean(raw_results) for the one key of raw_results.
Clean(in) ==
    IF in.value = "empty" THEN [pc |-> "returned", entry |-> NoEntry]
    ELSE IF GetType(in) = "AttributeError" THEN [pc |-> "AttributeError", entry |-> NoEntry]
    ELSE IF GetType(in) = "0" THEN CleanNumber(in)
    ELSE IF GetType(in) = "1" THEN CleanTag(in)
    ELSE [pc |-> "returned", entry |-> NoEntry]

CleanReturns ==
    /\ cleaned.pc = "idle"
    /\ cleaned' = Clean(clean_in)
    /\ UNCHANGED clean_in

(***************************************************************************)
(* Multisma2: main() builds the application and calls run(), which starts  *)
(* the site, runs it, and stops it in its finally clause.                  *)
(***************************************************************************)
\* How _start() ends: it returns, _astart() raises FailedInitialization
\* before the session and the site exist (no 'log' entry, logfiles.start()
\* fails) or after them (site.start() is false), the delayed
\* KeyboardInterrupt is raised when the with block is left, the SIGTERM
\* handler raises TerminateSignal, or another exception escapes.
StartOutcomes ==
    {"ok", "FailedInitialization", "KeyboardInterrupt", "TerminateSignal", "Exception"}

\* How _run() ends: site.run() returns (NormalCompletion is raised), or an
\* exception is raised under it.
RunOutcomes ==
    {"NormalCompletion", "KeyboardInterrupt", "TerminateSignal", "AbnormalCompletion",
     "Exception"}

\* How _stop() ends.
StopOutcomes == {"ok", "KeyboardInterrupt", "TerminateSignal", "Exception"}

\* No exit status yet: the process runs.
Running == 0 - 1

VARIABLES app, exit_status

mainVars == <<app, exit_status>>

\* Before main(): self._session = None, self._site = None.
MainInit ==
    /\ app = [pc |-> "main", start |-> "none", run |-> "none", stop |-> "none",
              session |-> "None", site |-> "None", stops |-> 0]
    /\ exit_status = Running

\* The exit status of the interpreter: 0 when main() returns, 1 when an
\* exception escapes it; main() has no sys.exit().
ExitStatus(escaped) == IF escaped THEN 1 ELSE 0

\* Multisma2(): the YAML file is read; a failure raises FailedInitialization,
\* which main() passes over; a KeyboardInterrupt is not an Exception and
\* escapes main().
MainConstructs(outcome) ==
    /\ app.pc = "main"
    /\ \/ outcome = "ok" /\ app' = [app EXCEPT !.pc = "run"] /\ UNCHANGED exit_status
       \/ /\ outcome = "FailedInitialization"
          /\ app' = [app EXCEPT !.pc = "exited"]
          /\ exit_status' = ExitStatus(FALSE)
       \/ /\ outcome = "KeyboardInterrupt"
          /\ app' = [app EXCEPT !.pc = "exited"]
          /\ exit_status' = ExitStatus(TRUE)

\* run(): self._config.multisma2; without the entry run() prints and
\* returns, before the try.
RunChecksConfig(entry) ==
    /\ app.pc = "run"
    /\ IF entry
       THEN app' = [app EXCEPT !.pc = "start"] /\ UNCHANGED exit_status
       ELSE app' = [app EXCEPT !.pc = "exited"] /\ exit_status' = ExitStatus(FALSE)

\* _start() ends. created: self._session and self._site were assigned
\* before the exception; siteUp: site.start() had returned true.
StartEnds(outcome, created, siteUp) ==
    /\ app.pc = "start"
    /\ outcome \in {"ok", "KeyboardInterrupt"} => created /\ siteUp
    /\ siteUp => created
    /\ outcome = "FailedInitialization" => ~siteUp
    /\ app' = [app EXCEPT
                 !.pc = IF outcome = "ok" THEN "running" ELSE "stop",
                 !.start = outcome,
                 !.session = IF created THEN "open" ELSE "None",
                 !.site = IF ~created THEN "None"
                          ELSE IF siteUp THEN "started" ELSE "created"]
    /\ UNCHANGED exit_status

\* _run() ends; every outcome is caught by run() and leads to its finally.
RunEnds(outcome) ==
    /\ app.pc = "running"
    /\ app' = [app EXCEPT !.pc = "stop", !.run = outcome]
    /\ UNCHANGED exit_status

\* The finally of run(): _stop() runs _astop(), which awaits site.stop()
\* if self._site and then session.close() if self._session.  A delayed
\* KeyboardInterrupt is raised after _stop() and caught; a TerminateSignal
\* or an exception of site.stop() (siteDone false) or of session.close()
\* (siteDone true) ends _astop() there and leaves run().
StopEnds(outcome, siteDone) ==
    /\ app.pc = "stop"
    /\ outcome \in {"ok", "KeyboardInterrupt"} => siteDone
    /\ app.site = "None" => siteDone
    /\ outcome = "Exception" => app.session # "None"
    /\ app' = [app EXCEPT
                 !.pc = "stopped",
                 !.stop = outcome,
                 !.stops = @ + 1,
                 !.site = IF @ # "None" /\ siteDone THEN "stopped" ELSE @,
                 !.session = IF @ # "None" /\ outcome \in {"ok", "KeyboardInterrupt"}
                             THEN "closed" ELSE @]
    /\ UNCHANGED exit_status

\* run() returns or raises into main(), whose except clauses take every
\* Exception; main() returns and the interpreter exits.
MainReturns ==
    /\ app.pc = "stopped"
    /\ app' = [app EXCEPT !.pc = "exited"]
    /\ exit_status' = ExitStatus(FALSE)

(***************************************************************************)
(* The daylight flag of the site (PVSite._daylight): written by            *)
(* solar_data_update, by the daylight task and by the midnight task, read  *)
(* by the scheduler at each fast tick.                                     *)
(***************************************************************************)
VARIABLES
    sunlight,           \* whether now is between dawn and dusk
    is_daylight,        \* self._daylight
    computed_daylight,  \* what the daylight task or solar_data_update last assigned
    override_pc,        \* where the midnight task is
    saved_daylight,     \* the local saved_daylight of midnight()
    tick_daylight       \* the fast tick: what it read and what was last computed then

dayVars == <<sunlight, is_daylight, computed_daylight, override_pc, saved_daylight,
             tick_daylight>>

\* The midnight task between 'self._daylight = True' and
\* 'self._daylight = saved_daylight'.
Overriding == {"production", "yesterday", "totals", "publish"}

\* After the solar_data_update of run()'s first gather.
DayInit(light) ==
    /\ sunlight = light
    /\ is_daylight = light
    /\ computed_daylight = light
    /\ override_pc = "sleep"
    /\ saved_daylight = light
    /\ tick_daylight = [daylight |-> light, computed |-> light]

\* Dawn or dusk passes.
SunMoves ==
    /\ sunlight' = ~sunlight
    /\ UNCHANGED <<is_daylight, computed_daylight, override_pc, saved_daylight,
                   tick_daylight>>

\* daylight(): its sleep ends; the if/elif/else assigns False to
\* self._daylight before dawn and after dusk, True otherwise.
DaylightWakes ==
    /\ is_daylight' = sunlight
    /\ computed_daylight' = sunlight
    /\ UNCHANGED <<sunlight, override_pc, saved_daylight, tick_daylight>>

\* midnight(): the sleep ends and solar_data_update assigns
\* self._daylight = self._dawn < astral_now < self._dusk.
MidnightSolarUpdate ==
    /\ override_pc = "sleep"
    /\ override_pc' = "read"
    /\ is_daylight' = sunlight
    /\ computed_daylight' = sunlight
    /\ UNCHANGED <<sunlight, saved_daylight, tick_daylight>>

\* midnight(): the retry loop is left; saved_daylight = self._daylight;
\* self._daylight = True; the gather of read_inverter_production is awaited.
MidnightOverrides ==
    /\ override_pc = "read"
    /\ override_pc' = "production"
    /\ saved_daylight' = is_daylight
    /\ is_daylight' = TRUE
    /\ UNCHANGED <<sunlight, computed_daylight, tick_daylight>>

\* midnight(): one of its awaits under the override returns.
MidnightGoesOn ==
    /\ override_pc \in Overriding \ {"publish"}
    /\ override_pc' = IF override_pc = "production" THEN "yesterday"
                      ELSE IF override_pc = "yesterday" THEN "totals" ELSE "publish"
    /\ UNCHANGED <<sunlight, is_daylight, computed_daylight, saved_daylight, tick_daylight>>

\* midnight(): after the publication, self._daylight = saved_daylight, and
\* the task sleeps again.
MidnightRestores ==
    /\ override_pc = "publish"
    /\ override_pc' = "sleep"
    /\ is_daylight' = saved_daylight
    /\ UNCHANGED <<sunlight, computed_daylight, saved_daylight, tick_daylight>>

\* scheduler(): a fast tick passes self._daylight to read_instantaneous and
\* to update_total_production.
SchedulerReadsDaylight ==
    /\ tick_daylight' = [daylight |-> is_daylight, computed |-> computed_daylight]
    /\ UNCHANGED <<sunlight, is_daylight, computed_daylight, override_pc, saved_daylight>>

(***************************************************************************)
(* The specifications: the session of one inverter under concurrent calls, *)
(* the start of the site, the cache of one inverter under concurrent       *)
(* calls, and the scheduler with its queues.                               *)
(***************************************************************************)
vars == <<sessVars, startVars, cacheVars, schedVars, prodVars, calcVars, compVars, stopVars, cleanVars, mainVars, dayVars>>

\* Each specification starts the part it is about and leaves the others
\* as they are built.
CacheIdle == CacheInit(NoSet)

SchedIdle == SchedInit(CHOOSE run \in Runs : run.started = 0 /\ run.settings.fast = 1, TRUE)

CalcIdle ==
    CalcInit(5, GetComposite([i \in Inverters |-> 0], Inverters),
             GetComposite([i \in Inverters |-> 0], Inverters))

CompIdle == CompInit

StopIdle == StopInit

MainIdle == MainInit

DayIdle == DayInit(FALSE)

CleanIdle ==
    CleanInit([typ |-> "8", scale |-> 1, aggregate |-> FALSE,
               value |-> "empty", states |-> <<>>])

ProdIdle == ProdInit([i \in Inverters |-> CHOOSE v \in DeviceMeters(i) : v # 1442])

notSess == <<startVars, cacheVars, schedVars, prodVars, calcVars, compVars, stopVars, cleanVars, mainVars, dayVars>>

notStart == <<sessVars, cacheVars, schedVars, prodVars, calcVars, compVars, stopVars, cleanVars, mainVars, dayVars>>

notCache == <<sessVars, startVars, schedVars, prodVars, calcVars, compVars, stopVars, cleanVars, mainVars, dayVars>>

notSched == <<sessVars, startVars, cacheVars, prodVars, calcVars, compVars, stopVars, cleanVars, mainVars, dayVars>>

notProd == <<sessVars, startVars, cacheVars, schedVars, calcVars, compVars, stopVars, cleanVars, mainVars, dayVars>>

notCalc == <<sessVars, startVars, cacheVars, schedVars, prodVars, compVars, stopVars, cleanVars, mainVars, dayVars>>

notComp == <<sessVars, startVars, cacheVars, schedVars, prodVars, calcVars, stopVars, cleanVars, mainVars, dayVars>>

notStop == <<sessVars, startVars, cacheVars, schedVars, prodVars, calcVars, compVars, cleanVars, mainVars, dayVars>>

notClean == <<sessVars, startVars, cacheVars, schedVars, prodVars, calcVars, compVars, stopVars, mainVars, dayVars>>

notMain == <<sessVars, startVars, cacheVars, schedVars, prodVars, calcVars, compVars, stopVars, cleanVars, dayVars>>

notDay == <<sessVars, startVars, cacheVars, schedVars, prodVars, calcVars, compVars, stopVars, cleanVars, mainVars>>

SessNext ==
    \/ Construct /\ UNCHANGED notSess
    \/ \E c \in Calls : Begin(c) /\ UNCHANGED notSess
    \/ \E c \in Calls : Retry(c) /\ UNCHANGED notSess
    \/ \E c \in Calls : LoginEnds(c) /\ UNCHANGED notSess
    \/ \E c \in Calls : ReadEnds(c) /\ UNCHANGED notSess
    \/ \E c \in Calls : LogoutEnds(c) /\ UNCHANGED notSess

SessStart == SessInit /\ StartIdle /\ CacheIdle /\ SchedIdle /\ ProdIdle /\ CalcIdle /\ CompIdle /\ StopIdle /\ CleanIdle /\ MainIdle /\ DayIdle

Spec == SessStart /\ [][SessNext]_vars

StartNext ==
    \/ SiteStart /\ UNCHANGED notStart
    \/ \E i \in Inverters : InverterConstruct(i) /\ UNCHANGED notStart
    \/ \E i \in Inverters : InverterLogin(i) /\ UNCHANGED notStart
    \/ \E i \in Inverters : InverterGet(i) /\ UNCHANGED notStart
    \/ \E i \in Inverters : InverterProduction(i) /\ UNCHANGED notStart
    \/ \E i \in Inverters : InverterInstantaneous(i) /\ UNCHANGED notStart
    \/ SiteRaises /\ UNCHANGED notStart
    \/ SiteReturns /\ UNCHANGED notStart

SiteIdle == SessInit /\ StartIdle /\ CacheIdle /\ SchedIdle /\ ProdIdle /\ CalcIdle /\ CompIdle /\ StopIdle /\ CleanIdle /\ MainIdle /\ DayIdle

SpecStart == SiteIdle /\ [][StartNext]_vars

\* The site starts and, once start() has returned True, coroutines use the
\* session of an inverter: reads, with the logout after an 'err' and the
\* lazy login after it, and stop().
LaterNext ==
    /\ site_res = "True"
    /\ \E c \in Calls : Begin(c) \/ Retry(c) \/ LoginEnds(c) \/ ReadEnds(c) \/ LogoutEnds(c)
    /\ UNCHANGED notSess

LifeNext == StartNext \/ LaterNext

LifeStart ==
    /\ StartIdle /\ CacheIdle /\ SchedIdle /\ ProdIdle /\ CalcIdle /\ CompIdle /\ StopIdle /\ CleanIdle /\ MainIdle /\ DayIdle
    /\ ctor_res = "ok"
    /\ inv_sma = "set"
    /\ sma_sid = NoSid
    /\ sma_uid = NoUid
    /\ issued = 0
    /\ call = [c \in Calls |-> IdleCall]

SpecLife == LifeStart /\ [][LifeNext]_vars

CacheNext ==
    \/ \E t \in Tasks : CacheCall(t) /\ UNCHANGED notCache
    \/ \E t \in Tasks : LockGranted(t) /\ UNCHANGED notCache
    \/ \E t \in Tasks : RefreshEnds(t) /\ UNCHANGED notCache

CacheStart ==
    /\ SessInit /\ StartIdle /\ SchedIdle /\ ProdIdle /\ CalcIdle /\ CompIdle /\ StopIdle /\ CleanIdle /\ MainIdle /\ DayIdle
    /\ \E cache \in {NoSet, Snapshot(0)} : CacheInit(cache)

SpecCache == CacheStart /\ [][CacheNext]_vars

SchedNext ==
    \/ ClockTicks /\ UNCHANGED notSched
    \/ DaylightChanges /\ UNCHANGED notSched
    \/ SchedulerRuns /\ UNCHANGED notSched
    \/ ReadInstantaneousEnds /\ UNCHANGED notSched
    \/ UpdateTotalProductionEnds /\ UNCHANGED notSched
    \/ GatherReturns /\ UNCHANGED notSched
    \/ GatherRaises /\ UNCHANGED notSched
    \/ \E q \in Tiers : TaskGets(q) /\ UNCHANGED notSched
    \/ \E q \in Tiers : TaskPublishes(q) /\ UNCHANGED notSched

SchedStart ==
    /\ SessInit /\ StartIdle /\ CacheIdle /\ ProdIdle /\ CalcIdle /\ CompIdle /\ StopIdle /\ CleanIdle /\ MainIdle /\ DayIdle
    /\ \E run \in Runs, light \in BOOLEAN : SchedInit(run, light)

SpecSched == SchedStart /\ [][SchedNext]_vars

\* The scheduler with its consumers under the scheduling of the event loop:
\* a consumer whose queue.get() can return is run.  Whether the work of a
\* consumer returns is left open.  The run is the one with a tick of the
\* medium tier every second, started by day.
SchedFairStart ==
    /\ SessInit /\ StartIdle /\ CacheIdle /\ ProdIdle /\ CalcIdle /\ CompIdle /\ StopIdle /\ CleanIdle /\ MainIdle /\ DayIdle
    /\ SchedInit([settings |-> [fast |-> 2, medium |-> 1, slow |-> 4], started |-> 0], TRUE)

SpecSchedFair ==
    /\ SchedFairStart
    /\ [][SchedNext]_vars
    /\ \A q \in Tiers : WF_vars(TaskGets(q) /\ UNCHANGED notSched)

ProdNext ==
    \/ \E i \in Inverters : InstantaneousRead(i) /\ UNCHANGED notProd
    \/ \E light \in BOOLEAN : RunUpdatesTotal(light) /\ UNCHANGED notProd
    \/ \E light \in BOOLEAN : PassStarts(light) /\ UNCHANGED notProd
    \/ \E p \in Passes : PassGetsMeters(p) /\ UNCHANGED notProd
    \/ \E p \in Passes : PassPeriod(p) /\ UNCHANGED notProd
    \/ MidnightWakes /\ UNCHANGED notProd
    \/ MidnightReads /\ UNCHANGED notProd
    \/ \E i \in Inverters : ProductionReadEnds(i) /\ UNCHANGED notProd
    \/ MidnightUpdatesTotal /\ UNCHANGED notProd
    \/ MidnightRaises /\ UNCHANGED notProd
    \/ MidnightPublishes /\ UNCHANGED notProd
    \/ ProductionHistory /\ UNCHANGED notProd

ProdStart ==
    /\ SessInit /\ StartIdle /\ CacheIdle /\ SchedIdle /\ CalcIdle /\ CompIdle /\ StopIdle /\ CleanIdle /\ MainIdle /\ DayIdle
    /\ \E m \in [Inverters -> UNION {DeviceMeters(i) : i \in Inverters}] :
          (\A i \in Inverters : m[i] \in DeviceMeters(i)) /\ ProdInit(m)

SpecProd == ProdStart /\ [][ProdNext]_vars

CalcNext ==
    \/ Co2Avoided /\ UNCHANGED notCalc
    \/ InverterEfficiency /\ UNCHANGED notCalc

\* The calls are made on a site that has stored a list of period totals and
\* whose caches hold some AC and DC powers.
CalcStart ==
    /\ SessInit /\ StartIdle /\ CacheIdle /\ SchedIdle /\ CompIdle /\ StopIdle /\ CleanIdle /\ MainIdle /\ DayIdle
    /\ history = [i \in Inverters |->
                    Baselines(CHOOSE h \in DeviceHistories(i) : h.today # 1442)]
    /\ pass = [p \in Passes |-> IdlePass]
    /\ midnight = MidnightSleeps
    /\ histories = <<>>
    /\ \E m \in [Inverters -> UNION {CalcMeters(i) : i \in Inverters}],
          hist \in [Inverters -> UNION {CompleteBaselines(i) : i \in Inverters}] :
          /\ \A i \in Inverters : m[i] \in CalcMeters(i) /\ hist[i] \in CompleteBaselines(i)
          /\ meter = m
          /\ total = TotalProduction(m, hist)
    /\ \E factor \in Co2Factors, ac \in [Inverters -> AcPowers],
          dc \in [Inverters -> DcPowers], present \in SUBSET Inverters :
          CalcInit(factor, GetComposite(ac, Inverters), GetComposite(dc, present))

SpecCalc == CalcStart /\ [][CalcNext]_vars

CompNext ==
    \/ FastTick /\ UNCHANGED notComp
    \/ \E i \in Inverters : DeviceReadEnds(i) /\ UNCHANGED notComp
    \/ \E i \in Inverters : UpdateGetStateEnds(i) /\ UNCHANGED notComp
    \/ GetCompositeStarts /\ UNCHANGED notComp
    \/ \E i \in Inverters : GetStateEnds(i) /\ UNCHANGED notComp
    \/ \E i \in Inverters : ReadKeyEnds(i) /\ UNCHANGED notComp
    \/ GetCompositeEnds /\ UNCHANGED notComp

CompStart ==
    /\ SessInit /\ StartIdle /\ CacheIdle /\ SchedIdle /\ ProdIdle /\ CalcIdle
    /\ CompInit
    /\ StopIdle /\ CleanIdle /\ MainIdle /\ DayIdle

SpecComp == CompStart /\ [][CompNext]_vars

StopNext ==
    \/ RunStartsTasks /\ UNCHANGED notStop
    \/ \E t \in SubTasks, i \in Inverters : SubTaskTouches(t, i) /\ UNCHANGED notStop
    \/ \E t \in SubTasks : SubTaskRaises(t) /\ UNCHANGED notStop
    \/ StopBegins /\ UNCHANGED notStop
    \/ \E t \in SubTasks : SubTaskCancelled(t) /\ UNCHANGED notStop
    \/ \E i \in Inverters : InverterStopBegins(i) /\ UNCHANGED notStop
    \/ \E i \in Inverters : InverterStopEnds(i) /\ UNCHANGED notStop
    \/ StopReleases /\ UNCHANGED notStop

StopStart ==
    /\ SessInit /\ StartIdle /\ CacheIdle /\ SchedIdle /\ ProdIdle /\ CalcIdle /\ CompIdle
    /\ StopInit /\ CleanIdle /\ MainIdle /\ DayIdle

SpecStop == StopStart /\ [][StopNext]_vars

CleanNext == CleanReturns /\ UNCHANGED notClean

CleanStart ==
    /\ SessInit /\ StartIdle /\ CacheIdle /\ SchedIdle /\ ProdIdle /\ CalcIdle /\ CompIdle
    /\ StopIdle
    /\ \E in \in CleanInputs : CleanInit(in)
    /\ MainIdle /\ DayIdle

SpecClean == CleanStart /\ [][CleanNext]_vars

MainNext ==
    \/ \E outcome \in {"ok", "FailedInitialization", "KeyboardInterrupt"} :
          MainConstructs(outcome) /\ UNCHANGED notMain
    \/ \E entry \in BOOLEAN : RunChecksConfig(entry) /\ UNCHANGED notMain
    \/ \E outcome \in StartOutcomes, created, siteUp \in BOOLEAN :
          StartEnds(outcome, created, siteUp) /\ UNCHANGED notMain
    \/ \E outcome \in RunOutcomes : RunEnds(outcome) /\ UNCHANGED notMain
    \/ \E outcome \in StopOutcomes, siteDone \in BOOLEAN :
          StopEnds(outcome, siteDone) /\ UNCHANGED notMain
    \/ MainReturns /\ UNCHANGED notMain

MainStart ==
    /\ SessInit /\ StartIdle /\ CacheIdle /\ SchedIdle /\ ProdIdle /\ CalcIdle /\ CompIdle
    /\ StopIdle /\ CleanIdle
    /\ MainInit
    /\ DayIdle

SpecMain == MainStart /\ [][MainNext]_vars

DayNext ==
    \/ SunMoves /\ UNCHANGED notDay
    \/ DaylightWakes /\ UNCHANGED notDay
    \/ MidnightSolarUpdate /\ UNCHANGED notDay
    \/ MidnightOverrides /\ UNCHANGED notDay
    \/ MidnightGoesOn /\ UNCHANGED notDay
    \/ MidnightRestores /\ UNCHANGED notDay
    \/ SchedulerReadsDaylight /\ UNCHANGED notDay

DayStart ==
    /\ SessInit /\ StartIdle /\ CacheIdle /\ SchedIdle /\ ProdIdle /\ CalcIdle /\ CompIdle
    /\ StopIdle /\ CleanIdle /\ MainIdle
    /\ \E light \in BOOLEAN : DayInit(light)

SpecDay == DayStart /\ [][DayNext]_vars


(***************************************************************************)
(* Properties of the session.                                              *)
(***************************************************************************)
\* Coroutine c sends a POST in this step.
Posts(c) ==
    /\ call'[c].pc \in Waiting
    /\ call'[c].pc # call[c].pc \/ call'[c].att # call[c].att

\* The _fetch_json of coroutine c starts in this step (its first POST), or
\* it sends one more attempt.
BeginsFetch(c) == call'[c].pc \in Waiting /\ call'[c].pc # call[c].pc

Retries(c) == call'[c].pc = call[c].pc /\ call'[c].att = call[c].att + 1

\* The _fetch_json of coroutine c returns in this step.
FetchCompletes(c) == call[c].pc \in Waiting /\ call'[c].pc # call[c].pc

\* The session ids for which a read got a body with 'err', and those whose
\* read has also returned.
ErrSids == {call[c].esid : c \in Calls} \ {NoSid}

DeadSids == {call[c].esid : c \in {d \in Calls : call[d].pc = "done"}} \ {NoSid}

\* Inverter.stop() has been called; it has returned.
StopCalled == \E c \in Calls : call[c].op = StopOp

StopReturned == \E c \in Calls : call[c].op = StopOp /\ call[c].pc = "done"

\* C1: one _fetch_json never sends more than 3 POSTs; it sends another one
\* only after an attempt that failed; when it returns after an attempt that
\* failed it has sent exactly 3 and returns the body with the connectivity
\* 'err'; when attempt k gets a reply it returns at once (k <= 3).
C1_RetryExhaustion ==
    [][\A c \in Calls :
          /\ call'[c].att <= 3
          /\ Retries(c) => ~call'[c].fOk /\ call[c].att < 3
          /\ FetchCompletes(c) =>
                IF call'[c].fOk THEN call[c].att \in 1..3
                ELSE call[c].att = 3 /\ call'[c].fErr = "connect"]_vars

\* C1 witness: a login whose three attempts all failed ended with the
\* connectivity error.
C1_Witness ==
    \E c \in Calls : /\ call[c].pc = "done" /\ call[c].logins = 1
                     /\ ~call[c].fOk /\ call[c].fErr = "connect"
                     /\ call[c].res = "START_SESSION"

\* The parts of C2 that the code satisfies: the read that gets a body with
\* 'err' sends no other read request, ends with ERR_RETURNED, and
\* sma_sid is None when it returns.
ErrClosesSession ==
    \A c \in Calls :
        /\ (call[c].pc = "read" /\ call'[c].esid # NoSid) => call'[c].pc \in {"logout", "done"}
        /\ (call[c].pc # "done" /\ call'[c].pc = "done" /\ call'[c].esid # NoSid)
              => call'[c].res = "ERR_RETURNED" /\ sma_sid' = NoSid

C3_LazyLogin ==
    [][\A c \in Calls :
          /\ (call[c].pc = "idle" /\ call'[c].op = ReadOp /\ inv_sma = "set") =>
                IF sma_sid = NoSid
                THEN call'[c].pc = "login" /\ call'[c].logins = 1
                ELSE call'[c].pc = "read" /\ call'[c].logins = 0 /\ call'[c].psid = sma_sid
          /\ (call[c].pc = "login" /\ call[c].op = ReadOp /\ call'[c].pc # "login") =>
                \/ call'[c].pc = "read" /\ call'[c].psid = sma_sid' /\ sma_sid' # NoSid
                \/ call'[c].pc = "done" /\ call'[c].res \in LoginErrors \cup {"NO_SESSION"}
          /\ call[c].pc \in {"read", "logout", "done"} => call'[c].pc # "login"
          /\ call'[c].logins <= 1]_vars

\* C3 witness: one read has logged in and ended well, another has ended
\* well without a login.
C3_Witness ==
    \E c, d \in Calls :
        /\ call[c].op = ReadOp /\ call[c].res = "ok" /\ call[c].logins = 1
        /\ call[d].op = ReadOp /\ call[d].res = "ok" /\ call[d].logins = 0

\* The state of the session of section 4.1.
SessState ==
    IF sma_sid # NoSid THEN "Active"
    ELSE IF \E c \in Calls : call[c].pc = "login" THEN "LoggingIn"
    ELSE "NoSession"

C5_Original ==
    [][\A c \in Calls :
          (call[c].pc = "read" /\ call'[c].res \in DataErrors) => sma_sid' = NoSid]_vars

\* C5 amended: when the body of a read has no 'err', _read_body returns at
\* once, with NO_RESULT or UNEXPECTED_BODY if that is what the body is:
\* it sends no logout and leaves sma_sid as it is.
C5_DataErrorKeepsSession ==
    [][\A c \in Calls :
          (call[c].pc = "read" /\ FetchCompletes(c) /\ call'[c].fErr = "none") =>
              /\ call'[c].pc = "done"
              /\ call'[c].res \in DataErrors \cup {"ok"}
              /\ sma_sid' = sma_sid]_vars

\* C5 witness: a read has ended with a data error and the session id is
\* still the one it sent.
C5_Witness ==
    \E c \in Calls : /\ call[c].op = ReadOp /\ call[c].res \in DataErrors
                     /\ call[c].logins = 1 /\ sma_sid # NoSid /\ sma_sid = issued

\* A new_session() of coroutine c ends in this step; it fails.
LoginCompletes(c) == call[c].pc = "login" /\ call'[c].pc # "login"

LoginFails(c) == LoginCompletes(c) /\ call'[c].pc = "done" /\ call'[c].res # "ok"

\* What C6 says of a login apart from the kinds: a failed one leaves
\* sma_sid None, one whose reply carries a session id stores it and does
\* not fail.
LoginStoresSid ==
    \A c \in Calls :
        /\ LoginFails(c) => sma_sid' = NoSid
        /\ (LoginCompletes(c) /\ issued' # issued) => sma_sid' = issued' /\ ~LoginFails(c)

AllStarted == \A i \in Inverters : inverter[i].pc = "done"

\* C7 as stated: PVSite.start() does not raise; once the inverters' start()
\* are scheduled it returns only when all of them have ended, and True
\* exactly when each of them returned keys.
C7_Original ==
    site_pc = "done" =>
        /\ site_res \in {"True", "False"}
        /\ (\E i \in Inverters : inverter[i].pc # "idle") => AllStarted
        /\ site_res = "True" <=> \A i \in Inverters : inverter[i].out = "keys"

\* C8 as stated: when a sub-step of Inverter.start() has failed, start() has
\* returned a result with keys None and a non-empty error, and runs no
\* later sub-step.
C8_Original ==
    \A i \in Inverters :
        inverter[i].failed # "none" =>
            /\ inverter[i].pc = "done"
            /\ inverter[i].out = "error"
            /\ inverter[i].error # "None"

(***************************************************************************)
(* Properties of the cache.                                                *)
(***************************************************************************)
\* The sets the cache can hold whole: None, or one set of the device.
CompleteSets == {NoSet} \cup {Snapshot(t) : t \in {0} \cup Tasks}

\* The refresh of task t is between taking the lock and storing the set.
Refreshing(t) == task[t].op = "read_instantaneous" /\ task[t].pc = "reading"

\* In this step the refresh of task t ends with an exception.
RefreshFails(t) == Refreshing(t) /\ task'[t].pc = "done" /\ task'[t].res # "ok"

\* In this step the get_state of task t reads its key.
Observes(t) == task'[t].op = "get_state" /\ task[t].pc # "done" /\ task'[t].res = "ok"

\* C9: the cache always holds one whole set of the device (or None); it
\* changes only in the step in which a refresh that holds the lock stores
\* its set; the lock is held, by one refresh at a time, from the start of a
\* refresh to its store; a refresh that fails leaves the cache as it was
\* when the refresh took the lock; and a get_state reads its key while no
\* refresh is between lock and store, so its value is that of the whole set
\* before or after a concurrent refresh.
C9_CacheCoherence ==
    [][/\ instantaneous' \in CompleteSets
       /\ \A t \in Tasks :
             /\ (task'[t].pc = "reading") =>
                    lock_locked' /\ \A u \in Tasks \ {t} : task'[u].pc # "reading"
             /\ RefreshFails(t) =>
                    instantaneous' = instantaneous /\ instantaneous = task[t].before
             /\ Observes(t) =>
                    /\ \A u \in Tasks : ~Refreshing(u)
                    /\ instantaneous' = instantaneous
                    /\ task'[t].seen = instantaneous[task'[t].key]
       /\ instantaneous' # instantaneous =>
             \E t \in Tasks : Refreshing(t) /\ lock_locked /\ task'[t].res = "ok"]_vars

\* C9 witness: a get_state that waited for the lock during a refresh has
\* returned the value of the new set, and a later refresh has failed and
\* left that set in the cache.
C9_Witness ==
    \E r, g, f \in Tasks :
        /\ task[r].op = "read_instantaneous" /\ task[r].res = "ok"
        /\ task[r].before = Snapshot(0)
        /\ task[g].op = "get_state" /\ task[g].waited /\ task[g].res = "ok"
        /\ task[g].seen = r
        /\ task[f].op = "read_instantaneous" /\ task[f].res = "ERR_RETURNED"
        /\ task[f].before = Snapshot(r) /\ instantaneous = Snapshot(r)

(***************************************************************************)
(* Properties of the scheduler.                                            *)
(***************************************************************************)
\* The ticks on the fast queue and the one task_fast is working on.
FastTicks ==
    {queues.fast[n] : n \in DOMAIN queues.fast}
        \cup (IF worker.fast.pc = "work" THEN {worker.fast.timestamp} ELSE {})

\* A refresh started for tick t has not returned.
RefreshInProgress(t) ==
    \E r \in {gather.read_instantaneous, gather.update_total_production} :
        r.tick = t /\ r.pc = "running"

\* The fast queue as it is after the step that puts tick t on it.
FastPut(t) == queues'.fast = Append(queues.fast, t)

\* C10: a tick is put on the fast queue only in a step before which both
\* refreshes started for that tick have returned, and no refresh started
\* for a tick that is on the fast queue, or that task_fast is working on,
\* is still running.
C10_RefreshBeforeFastTick ==
    [][/\ \A t \in started..(started + MaxTime) :
             FastPut(t) =>
                /\ gather.read_instantaneous.pc = "done"
                /\ gather.read_instantaneous.tick = t
                /\ gather.update_total_production.pc = "done"
                /\ gather.update_total_production.tick = t
       /\ \A t \in FastTicks' : ~RefreshInProgress(t)']_vars

\* C10 witness: task_fast is working on a tick whose two refreshes read the
\* inverters (daylight), while the refreshes of a later fast tick are
\* running.
C10_Witness ==
    /\ worker.fast.pc = "work"
    /\ scheduler.pc = "gather"
    /\ scheduler.tick > worker.fast.timestamp
    /\ gather.read_instantaneous.pc = "running"
    /\ gather.update_total_production.pc = "running"
    /\ gather.read_instantaneous.daylight

\* The ticks of a queue.
TicksOf(q) == {q[n] : n \in DOMAIN q}

\* In this step the scheduler puts its tick on the queue of tier q.
Puts(q) ==
    /\ scheduler' # scheduler
    /\ \E n \in DOMAIN scheduler'.puts : scheduler'.puts[n] = q

\* In this step the task of tier q takes a tick from its queue.
Takes(q) == worker[q].pc = "get" /\ worker'[q].pc = "work"

\* C11: the second the scheduler tests is the second in which it wakes; a
\* queue changes only by losing its head or by gaining that second at its
\* end, and the second it gains is greater than every second put on that
\* queue before (those still queued and the last one consumed).
C11_NoCatchUp ==
    [][/\ scheduler'.tick # scheduler.tick => scheduler'.tick = now
       /\ \A q \in Tiers :
             \/ queues'[q] = queues[q]
             \/ queues[q] # <<>> /\ queues'[q] = Tail(queues[q])
             \/ /\ queues'[q] = Append(queues[q], scheduler'.tick)
                /\ scheduler'.tick = scheduler'.last_tick
                /\ \A t \in TicksOf(queues[q]) \cup {worker[q].timestamp} :
                       t < scheduler'.tick]_vars

\* C11 witness: with a fast interval of one second the fast queue holds two
\* ticks more than a second apart: the seconds between them passed while
\* the scheduler awaited the refreshes and were not queued.
C11_Witness ==
    /\ sampling.fast = 1
    /\ scheduler.pc = "sleep"
    /\ Len(queues.fast) = 2
    /\ queues.fast[2] > queues.fast[1] + 1
    /\ now > queues.fast[2]

\* C12 as stated: no queue ever holds more than one tick.
C12_Original == \A q \in Tiers : Len(queues[q]) <= 1

\* C12 amended: a queue is an unbounded FIFO: a put appends the tick and
\* keeps every tick already queued, and a task takes the oldest tick.
C12_QueueKeepsEveryTick ==
    [][\A q \in Tiers :
          /\ Puts(q) => queues'[q] = Append(queues[q], scheduler'.tick)
          /\ Takes(q) => /\ queues[q] # <<>>
                         /\ worker'[q].timestamp = Head(queues[q])
                         /\ queues'[q] = Tail(queues[q])
          /\ (~Puts(q) /\ ~Takes(q)) => queues'[q] = queues[q]]_vars

\* C12 witness: the medium queue holds two ticks while task_medium is
\* still working on an earlier one.
C12_Witness ==
    /\ worker.medium.pc = "work"
    /\ Len(queues.medium) = 2
    /\ worker.medium.timestamp < queues.medium[1]
    /\ queues.medium[1] < queues.medium[2]

\* C13: when the scheduler ends an iteration in which it tested a new
\* second, it has put that second on the queue of exactly the tiers whose
\* interval divides it, fast before medium before slow; every tick of a
\* queue is a multiple of the interval of its tier.
C13_TierDispatch ==
    [][/\ (scheduler' # scheduler /\ scheduler'.pc = "sleep") =>
             /\ scheduler'.puts =
                    SelectSeq(TierOrder, LAMBDA q : scheduler'.tick % sampling[q] = 0)
             /\ \A q \in Tiers :
                    queues'[q] = IF scheduler'.tick % sampling[q] = 0
                                 THEN Append(queues[q], scheduler'.tick) ELSE queues[q]
       /\ \A q \in Tiers : \A t \in TicksOf(queues'[q]) : t % sampling[q] = 0]_vars

\* C13 witness: with the default intervals second 120 has been put on the
\* three queues, and second 119 on none.
C13_Witness ==
    /\ sampling = [fast |-> 30, medium |-> 60, slow |-> 120]
    /\ scheduler.puts = TierOrder
    /\ \A q \in Tiers : queues[q] = <<120>>
    /\ started = 118

\* The coroutines of the gather.
Refreshes == {"read_instantaneous", "update_total_production"}

\* In this step the refresh x of the gather returns.
RefreshReturns(x) == gather[x].pc = "running" /\ gather'[x].pc = "done"

\* C14: a refresh started by a fast tick while the daylight flag was false
\* returns without a request to an inverter and leaves the cached set of
\* every inverter and _total_production as they were; the tick is still
\* put on the fast queue, and the tasks that consume the ticks leave the
\* caches and _total_production as they are.
C14_NightFastTick ==
    [][/\ \A x \in Refreshes :
             (RefreshReturns(x) /\ ~gather[x].daylight) =>
                /\ ~gather'[x].sent
                /\ cached' = cached
                /\ total_production' = total_production
       /\ (scheduler.pc = "gather" /\ scheduler'.pc = "sleep") =>
             queues'.fast = Append(queues.fast, scheduler.tick)
       /\ \A q \in Tiers :
             worker'[q] # worker[q] =>
                cached' = cached /\ total_production' = total_production]_vars

\* C14 witness: the refreshes of a fast tick at daylight have read the
\* inverters; those of a later fast tick, at night, have returned without a
\* request, the caches and _total_production are still those of the earlier
\* tick, and the later tick is on the fast queue.
C14_Witness ==
    /\ ~daylight
    /\ scheduler.pc = "sleep"
    /\ \A x \in Refreshes :
          gather[x].pc = "done" /\ ~gather[x].daylight /\ ~gather[x].sent
    /\ queues.fast # <<>>
    /\ queues.fast[Len(queues.fast)] = gather.read_instantaneous.tick
    /\ total_production > started
    /\ total_production < gather.read_instantaneous.tick
    /\ \A i \in Inverters : cached[i] = total_production

(***************************************************************************)
(* Properties of the period totals.                                        *)
(***************************************************************************)
\* The sum of f over the inverters of S.
RECURSIVE SumOver(_, _)
SumOver(S, f) ==
    IF S = {} THEN 0
    ELSE LET i == CHOOSE x \in S : TRUE IN f[i] + SumOver(S \ {i}, f)

\* The entries update_total_production has computed: those of the stored list
\* and those of the passes in progress.
ComputedEntries ==
    {total[n] : n \in DOMAIN total}
        \cup UNION {{pass[p].stats[n] : n \in DOMAIN pass[p].stats} : p \in Passes}

\* C15: in every entry update_total_production computes, whatever the period,
\* the baselines and the meters, 'site' is the arithmetic sum of the deltas
\* of the inverters in the same entry; a stored list has an entry for each of
\* today, month, year and lifetime.
C15_SiteIsSumOfDeltas ==
    /\ \A e \in ComputedEntries : e.site = SumOver(Inverters, e.device)
    /\ total # <<>> => [n \in DOMAIN total |-> total[n].period] = Periods

\* C15 witness: a pass has stored its list; today's entry holds the deltas
\* 157 and 109 of two inverters and their sum as 'site', and another entry
\* of the list holds other deltas and their sum.
C15_Witness ==
    /\ Len(total) = Len(Periods)
    /\ total[1].device[1] = 157
    /\ total[1].device[NumInverters] = 109
    /\ total[1].site = 157 + 109 * (NumInverters - 1)
    /\ total[2].site # total[1].site
    /\ total[2].site = SumOver(Inverters, total[2].device)

\* The entry a step of pass p has just computed.
NewEntry(p) ==
    IF pass'[p].pc = "periods" THEN pass'[p].stats[Len(pass'[p].stats)]
    ELSE total'[Len(total')]

\* C16: the delta update_total_production stores for an inverter and a period
\* is the meter of the inverter minus its baseline for the period: for the
\* same baselines a meter higher by k gives a delta higher by k, the lifetime
\* delta is the meter itself, and baselines 1000 and 500 with meters 1157 and
\* 609 give 157, 109 and, for a site of these two inverters, 266.
C16_DeltaIsMeterMinusBaseline ==
    [][\A p \in Passes :
          (pass[p].pc = "periods" /\ pass'[p] # pass[p]) =>
             LET e == NewEntry(p)
                 meters == pass[p].meters
             IN  /\ \A i \in Inverters :
                       /\ e.device[i] = meters[i] - history[i][e.period]
                       /\ e.period = "lifetime" => e.device[i] = meters[i]
                       /\ \A k \in {285, 1000} :
                             PeriodStats(e.period, [meters EXCEPT ![i] = @ + k],
                                         history).device[i] = e.device[i] + k
                 /\ (/\ e.period = "today"
                     /\ meters[1] = 1157 /\ history[1].today = 1000
                     /\ meters[NumInverters] = 609 /\ history[NumInverters].today = 500)
                    => /\ e.device[1] = 157
                       /\ e.device[NumInverters] = 109
                       /\ NumInverters = 2 => e.site = 266]_vars

\* C16 witness: a stored list whose entry for today holds the deltas 157 and
\* 109, from the baselines 1000 and 500, and whose lifetime entry holds the
\* meters 1157 and 609.
C16_Witness ==
    /\ Len(total) = Len(Periods)
    /\ history[1].today = 1000 /\ history[NumInverters].today = 500
    /\ total[1].period = "today"
    /\ total[1].device[1] = 157 /\ total[1].device[NumInverters] = 109
    /\ total[4].period = "lifetime"
    /\ total[4].device[1] = 1157 /\ total[4].device[NumInverters] = 609

\* The step in which the read_inverter_production of inverter i, awaited by
\* the midnight task, returns.
ProductionReturns(i) == i \in midnight.pending /\ i \notin midnight'.pending

\* The step in which the update_total_production of the midnight task stores
\* its list.
MidnightPassStores == pass["midnight"].pc = "periods" /\ pass'["midnight"].pc = "idle"

C20_BaselinesAllOrNothing ==
    [][/\ \A i \in Inverters : \A h \in DeviceHistories(i), ok \in [1..3 -> BOOLEAN] :
             HistoryAfter(history[i], ok, h) =
                IF \E n \in 1..3 : ~ok[n] THEN history[i]
                ELSE [today |-> h.today, month |-> h.month, year |-> h.year,
                      lifetime |-> 0]
       /\ \A i \in Inverters :
             /\ history[i] \in CompleteBaselines(i)
             /\ ProductionReturns(i) =>
                   /\ i \in midnight'.failed => history' = history
                   /\ i \notin midnight'.failed =>
                         /\ history'[i] \in CompleteBaselines(i)
                         /\ history'[i].lifetime = 0
                   /\ \A j \in Inverters \ {i} : history'[j] = history[j]
       /\ (\A i \in Inverters : ~ProductionReturns(i)) => history' = history]_vars

\* C20 witness: the refreshes of the midnight task have returned; that of the
\* first inverter failed and its four baselines are those it had before,
\* while that of the last inverter succeeded.
C20_Witness ==
    /\ midnight.pc = "yesterday"
    /\ midnight.failed = {1}
    /\ history[1] = [today |-> 1000, month |-> 900, year |-> 0, lifetime |-> 0]
    /\ history[NumInverters] \in CompleteBaselines(NumInverters)

(***************************************************************************)
(* Properties of the derived quantities.                                   *)
(***************************************************************************)
\* The stored list has today's totals 157, 109 and, for two inverters, 266,
\* and the configured factor is 0.5.
ExampleTotals ==
    /\ co2_factor = 5
    /\ total[1].period = "today"
    /\ total[1].device[1] = 157
    /\ total[1].device[NumInverters] = 109
    /\ total[1].site = 266

\* v hundredths of kg is what co2_avoided reports for value Wh of a period:
\* value * 0.001 * factor rounded to the nearest hundredth for today, and
\* cut to whole kg for the other periods.
ReportsScaled(period, value, v) ==
    LET exact == value * co2_factor     \* in 1/10000 kg
        kg == v \div 100
    IN  IF period = "today"
        THEN 2 * (exact - v * 100) \in (0 - 100)..100
        ELSE /\ v = kg * 100
             /\ IF exact >= 0
                THEN kg * 10000 <= exact /\ exact < (kg + 1) * 10000
                ELSE (kg - 1) * 10000 < exact /\ exact <= kg * 10000

\* C17 as stated: with today's totals 157, 109 and 266 and a factor of 0.5,
\* co2_avoided reports 133.0 for the site today.
C17_Original ==
    (co2avoided.pc = "done" /\ ExampleTotals) => co2avoided.reply[1].site = 13300

\* C17: co2_avoided reports, for each period and each key of its entry, the
\* period total in Wh times 0.001 times the factor, rounded to 2 decimals for
\* today and cut to an integer for month, year and lifetime; with today's
\* totals 157, 109 and 266 and a factor of 0.5 it reports 0.08, 0.05 and
\* 0.13.
C17_Co2ScaledToKWh ==
    co2avoided.pc = "done" =>
       /\ \A n \in DOMAIN Periods :
             LET tp == total[n]
                 r == co2avoided.reply[n]
             IN  /\ r.topic = tp.period
                 /\ ReportsScaled(tp.period, tp.site, r.site)
                 /\ \A i \in Inverters : ReportsScaled(tp.period, tp.device[i], r.device[i])
       /\ ExampleTotals =>
             /\ co2avoided.reply[1].site = 13
             /\ co2avoided.reply[1].device[1] = 8
             /\ co2avoided.reply[1].device[NumInverters] = 5

\* C17 witness: co2_avoided has returned for today's totals 157, 109 and 266
\* and the factor 0.5; it reported 0.13 for the site today and 0 kg for the
\* lifetime total of 1766 Wh.
C17_Witness ==
    /\ co2avoided.pc = "done"
    /\ ExampleTotals
    /\ co2avoided.reply[1].topic = "today"
    /\ co2avoided.reply[1].site = 13
    /\ co2avoided.reply[4].site = 0

\* C18 as stated: inverter_efficiency never raises, whatever the AC and DC
\* composites, and returns for every key of the AC composite 0.0 when the DC
\* value of the key is 0 and otherwise 100 * ac / dc (to 2 decimals).
C18_Original ==
    /\ efficiencies.pc # "raised"
    /\ efficiencies.pc = "done" =>
          \A k \in DOMAIN ac_power :
             /\ k \in DOMAIN dc_power
             /\ IF dc_power[k] = 0 THEN efficiencies.reply[k] = 0
                ELSE 2 * (ac_power[k] * 10000 - efficiencies.reply[k] * dc_power[k])
                        \in (0 - dc_power[k])..dc_power[k]

(***************************************************************************)
(* Properties of the attempts of one call on a session.                    *)
(***************************************************************************)
\* The _fetch_json of a read call, in the order _read_body runs them: that
\* of the lazy login, that of the read request, that of the logout.
FetchOrder(pc) ==
    IF pc = "idle" THEN 0
    ELSE IF pc = "login" THEN 1
    ELSE IF pc = "read" THEN 2
    ELSE IF pc = "logout" THEN 3
    ELSE 4

\* An upper bound of the POSTs a read call has sent when it is at pc with
\* att attempts of the _fetch_json in progress.
PostsBound(r) ==
    IF r.pc \in Waiting THEN FETCH_ATTEMPTS * (FetchOrder(r.pc) - 1) + r.att
    ELSE IF r.pc = "idle" THEN 0
    ELSE 3 * FETCH_ATTEMPTS

\* C29: a read call makes at most one lazy login, then the read request,
\* then at most one logout, never going back to an earlier one; each of the
\* three sends at most 3 POSTs, so that every POST raises a count that never
\* exceeds 9.
C29_BoundedAttempts ==
    [][\A c \in Calls :
          call'[c].op = ReadOp =>
             /\ call'[c].att <= 3
             /\ call'[c].logins <= 1
             /\ call[c].op = ReadOp => FetchOrder(call'[c].pc) >= FetchOrder(call[c].pc)
             /\ PostsBound(call'[c]) <= 9
             /\ Posts(c) => PostsBound(call'[c]) > PostsBound(call[c])]_vars

\* C29 witness: a read call that logged in lazily and whose read request got
\* a body with 'err' is at the third attempt of its logout.
C29_Witness ==
    \E c \in Calls :
        /\ call[c].op = ReadOp
        /\ call[c].logins = 1
        /\ call[c].pc = "logout"
        /\ call[c].att = 3
        /\ call[c].esid # NoSid

\* C30 as stated: every POST of a read request or of a logout carries the
\* session id the session has at that moment, which is not None; no read
\* request is sent while the session id is None.
C30_Original ==
    [][\A c \in Calls :
          (Posts(c) /\ call'[c].pc \in {"read", "logout"}) =>
             /\ call'[c].psid # NoSid
             /\ call'[c].psid = sma_sid'
             /\ sma_sid' # NoSid]_vars

(***************************************************************************)
(* Properties of the dictionaries of an inverter.                          *)
(***************************************************************************)
\* The position of a sub-step in Inverter.start().
SubStepIndex(pc) ==
    IF pc = "idle" THEN 0
    ELSE IF pc = "done" THEN Len(SubSteps) + 1
    ELSE CHOOSE n \in DOMAIN SubSteps : SubSteps[n] = pc

\* C25: self._metadata and self._tags are each assigned at most once, by
\* the step of start() in which their own GET answers, and exactly once in a
\* start() that got past it; start() never goes back to a sub-step, and the
\* operations on the session after the start (reads, logout after an 'err',
\* lazy login, stop) leave both as they are.
C25_DictionariesFetchedOnce ==
    [][\A i \in Inverters :
          /\ inverter'[i].metadata <= 1 /\ inverter'[i].tags <= 1
          /\ SubStepIndex(inverter'[i].pc) >= SubStepIndex(inverter[i].pc)
          /\ inverter'[i].metadata # inverter[i].metadata =>
                inverter[i].pc = "metadata" /\ inverter'[i].pc = "tags"
          /\ inverter'[i].tags # inverter[i].tags =>
                inverter[i].pc = "tags" /\ inverter'[i].pc = "production"
          /\ inverter'[i].pc \in {"tags", "production", "instantaneous"} =>
                inverter'[i].metadata = 1
          /\ inverter'[i].pc \in {"production", "instantaneous"} => inverter'[i].tags = 1
          /\ inverter'[i].out = "keys" => inverter'[i].metadata = 1 /\ inverter'[i].tags = 1
          /\ call' # call => inverter' = inverter]_vars

\* C25 witness: the site has started, a read on a session has since got a
\* body with 'err' and closed the session, a later read has logged in again,
\* and every inverter still has the dictionaries of its one fetch.
C25_Witness ==
    /\ site_res = "True"
    /\ \E c, d \in Calls :
          /\ call[c].pc = "done" /\ call[c].res = "ERR_RETURNED"
          /\ call[d].op = ReadOp /\ call[d].logins = 1 /\ call[d].pc = "done"
          /\ call[d].res = "ok"
    /\ \A i \in Inverters : inverter[i].metadata = 1 /\ inverter[i].tags = 1

(***************************************************************************)
(* Properties of the sub-tasks of run().                                   *)
(***************************************************************************)
\* C24 (as stated): a history read that fails in the midnight task does not
\* end the midnight task and does not make run() return: the task is never
\* left with an exception for 'await self._task_gather' to raise.
C24_Original == ~RunRaises

(***************************************************************************)
(* Properties of the stored list of period totals.                         *)
(***************************************************************************)
\* A list that update_total_production may have stored: None, or one entry
\* per period, in order, each with 'period', 'site' and every inverter.
CompleteSnapshot(t) ==
    \/ t = <<>>
    \/ /\ Len(t) = Len(Periods)
       /\ \A n \in DOMAIN t :
             /\ DOMAIN t[n] = {"period", "device", "site"}
             /\ t[n].period = Periods[n]
             /\ DOMAIN t[n].device = Inverters

\* C28: the stored list is always None or complete; it changes only in the
\* step of a pass of update_total_production that appends the last period,
\* and then to the list of that pass; production_history leaves it as it is
\* and returns a history for every period with every inverter and the site,
\* also while a pass is computing its entries.
C28_SnapshotReplacedWhole ==
    [][/\ CompleteSnapshot(total')
       /\ total' # total =>
             \E p \in Passes :
                /\ pass[p].pc = "periods" /\ pass'[p] = IdlePass
                /\ Len(pass[p].stats) = Len(Periods) - 1
                /\ SubSeq(total', 1, Len(Periods) - 1) = pass[p].stats
       /\ histories' # histories =>
             /\ total' = total
             /\ pass' = pass
             /\ \A n \in DOMAIN Periods :
                   /\ histories'[n].topic = Periods[n]
                   /\ histories'[n].keys = Inverters \cup {Site}]_vars

\* C28 witness: production_history has returned, a list is stored, and a pass
\* has computed some of its entries and not yet stored them.
C28_Witness ==
    /\ histories # <<>>
    /\ total # <<>>
    /\ \E p \in Passes :
          /\ pass[p].pc = "periods"
          /\ Len(pass[p].stats) \in 1..(Len(Periods) - 1)
          /\ pass[p].stats[1] # total[1]

C26_CacheRouting ==
    [][/\ cached_keys' = cached_keys
       /\ (composite'.pc = "gather" /\ composite.pc # "gather") =>
             composite'.requests =
                [i \in Inverters |-> IF composite'.key \in cached_keys THEN 0 ELSE 1]
       /\ composite.pc = "gather" => composite'.requests = composite.requests
       /\ \A i \in Inverters :
             composite'.answers[i] \notin {composite.answers[i], NoAnswer} =>
                IF composite.key \in cached_keys
                THEN /\ composite'.answers[i] =
                           [from |-> "cache", val |-> DevicePower(i, sensors[i])]
                     /\ sensors' = sensors /\ site_read' = site_read
                ELSE composite'.answers[i].from \in {"device", "False"}]_vars

\* C26 witness: a composite of the key outside the set is done, made of one
\* answer of each device, after the caches were read again at a fast tick.
C26_Witness ==
    /\ composite.pc = "done"
    /\ composite.key = LiveKey
    /\ \A i \in Inverters :
          composite.requests[i] = 1 /\ composite.answers[i].from = "device"
    /\ \E i \in Inverters : sensors[i] = MaxFastTicks

\* C23 (as stated): in a composite of a cached key made after the read of a
\* fast tick has returned and before the next tick, an inverter whose read
\* failed at that tick has no value.
C23_Original ==
    (/\ composite.pc = "done"
     /\ composite.key = CachedKey
     /\ composite.after
     /\ composite.tick = site_read.tick
     /\ site_read.pc = "done") =>
        \A i \in Inverters :
           site_read.results[i].sensors = "None" => i \notin DOMAIN composite.reply

(***************************************************************************)
(* Properties of the shutdown.                                             *)
(***************************************************************************)
\* C22 (as stated): once stop() has returned, the session id of the device
\* is cleared.
C22_Original == StopReturned => sma_sid = NoSid

\* C21 (as stated): a sub-task starts no operation on an inverter that
\* stop() has closed.
C21_Original ==
    [][\A t \in SubTasks :
          subtask'[t].touches > subtask[t].touches => agent[subtask'[t].device] # "closed"]_vars

(***************************************************************************)
(* Properties of concurrent reads on one session.                          *)
(***************************************************************************)
\* C34 (as stated): of the reads running on a device, at most one has a
\* login in flight.
C34_Original == Cardinality({c \in Calls : call[c].op = ReadOp /\ call[c].pc = "login"}) <= 1

\* C35 (as stated): while a read that got a device error has its logout for
\* session id s in flight, no other read starts a request carrying s; and
\* when that logout ends, a session id that a login has stored in the
\* meantime is left in place.
C35_Original ==
    [][\A c \in Calls :
          /\ (BeginsFetch(c) /\ call'[c].op = ReadOp /\ call'[c].pc = "read") =>
                ~\E d \in Calls \ {c} :
                    /\ call[d].op = ReadOp /\ call[d].pc = "logout"
                    /\ call[d].psid = call'[c].psid
          /\ (call[c].op = ReadOp /\ call[c].pc = "logout" /\ FetchCompletes(c)
                /\ sma_sid # call[c].psid) => sma_sid' = sma_sid]_vars


\* C32 (as stated): a type 1 key is cleaned to the string the tag dictionary
\* holds for the first reported tag code, and a key whose metadata gives a
\* type other than 0 and 1 is left out of the result without an exception.
C32_Original ==
    /\ (clean_in.typ = "1" /\ cleaned.pc = "returned" /\ cleaned.entry.kind = "tag")
          => cleaned.entry.tag = LookupTag(clean_in.states[1].tags[1])
    /\ (clean_in.typ \notin {"0", "1", "absent"} /\ cleaned.pc # "idle")
          => (cleaned.pc = "returned" /\ cleaned.entry.kind = "none")


\* C33 (as stated): _run() is entered only after _start() returned; after
\* a start phase the stop phase has run exactly once when the process
\* ends, with the site stopped and the client session closed; and a
\* process whose start phase failed ends with a status other than 0.
C33_Original ==
    /\ app.run # "none" => app.start = "ok"
    /\ (app.pc = "exited" /\ app.start # "none") => app.stops = 1
    /\ (app.pc = "exited" /\ app.start = "FailedInitialization") => exit_status # 0


\* C38: once run() has started its sub-tasks, _total_production is a list
\* with an entry for each of the four periods, whatever the daylight was
\* when the process started and whatever ticks by night followed; no
\* production_history() of a consumer or of the midnight task has raised
\* for want of an entry.
C38_TotalNeverNull ==
    /\ SubTasksStarted =>
          \A period \in PeriodSet : \E n \in DOMAIN total : total[n].period = period
    /\ histories # RaisedHistories

\* A production_history() has looked up the four periods while the midnight
\* task was under way.
C38_Witness ==
    /\ SubTasksStarted
    /\ Len(histories) = Len(Periods)
    /\ midnight.pc # "sleep"


\* C39 (as stated): the retry loop of the midnight task makes at most
\* MIDNIGHT_RETRIES retries after its first read, and a wake that gave up
\* after the last retry goes on to the baseline refresh and to the
\* publication: it does not end before it has published.
C39_Original ==
    /\ midnight.retries <= MIDNIGHT_RETRIES
    /\ midnight.retries = MIDNIGHT_RETRIES =>
          midnight.pc \in {"read", "production", "yesterday", "totals", "publish"}

\* The steps of one wake of the midnight task, in order.
MidnightOrder ==
    {<<"sleep", "read">>, <<"read", "production">>, <<"production", "yesterday">>,
     <<"yesterday", "totals">>, <<"totals", "publish">>, <<"publish", "sleep">>}

\* C31 (as stated): a wake of the midnight task goes through its steps in
\* the order read, baseline refresh, yesterday's history, total update,
\* publication, each once, and no entry of a total is computed or stored
\* while the baseline refresh of the wake has not ended on every inverter.
C31_Original ==
    [][/\ midnight'.pc # midnight.pc => <<midnight.pc, midnight'.pc>> \in MidnightOrder
       /\ midnight.pc = "production" =>
             /\ total' = total
             /\ \A p \in Passes : pass'[p].stats = pass[p].stats]_vars


\* C36: in the update_total_production of a fast tick, the sensor set
\* copied from an inverter whose read of the same tick succeeded is the set
\* that read stored, never the set of the tick before: the get_state waits
\* for the lock the read holds.
C36_SameTickFreshness ==
    \A i \in Inverters :
        (update.meters[i] # NotCopied /\ site_read.results[i].sensors = "set")
            => update.meters[i] = site_read.tick

\* The list of the second tick is stored, from sets which that tick read.
C36_Witness ==
    /\ update.pc = "stored"
    /\ site_read.tick = MaxFastTicks
    /\ \A i \in Inverters : update.meters[i] = MaxFastTicks


\* C37 (as stated): the value of the daylight flag a fast tick reads is the
\* value the daylight task or solar_data_update last computed, and outside
\* the override of the midnight task the flag holds that value: a value
\* the daylight task wrote during the override is in effect after the
\* restore.
C37_Original ==
    /\ tick_daylight.daylight = tick_daylight.computed
    /\ override_pc \notin Overriding => is_daylight = computed_daylight


\* The work of the consumer of tier q returns whenever it is awaited.
WorkReturns(q) == WF_vars(TaskPublishes(q) /\ UNCHANGED notSched)

\* The second t is on the queue of tier q.
Queued(q, t) == t \in TicksOf(queues[q])

\* The consumer of tier q has published for the second t and awaits the
\* next one.
Published(q, t) == worker[q].pc = "get" /\ worker[q].timestamp = t

=============================================================================
